---- MODULE Spec2Model ----
(***************************************************************************)
(* Harmony token format: the strict token-stream parser (createParser,     *)
(* parseTokens, renderConversation) and the streaming extractor            *)
(* (HarmonyStreamParser) of src/src/index.ts.                              *)
(*                                                                         *)
(* A JavaScript string is modelled as a sequence of one-character strings, *)
(* so that startsWith, slice, indexOf and the regular expressions of the   *)
(* source act on characters.  Indices are 0-based as in the source.        *)
(***************************************************************************)
EXTENDS Integers, Sequences, FiniteSets, TLC

VARIABLES
  state,      \* createParser: the ParseState closed over by push/finish
  last,       \* the last call made on the strict parser and what it did
  nPush,      \* number of push calls made so far
  accepted,   \* roles of the start tokens accepted so far, in order
  hist,       \* facts about the sequence of tokens pushed so far
  finished,   \* the conversation finish() last returned, as it was then (<<>>: none)
  buffer,         \* HarmonyStreamParser.buffer
  currentChannel, \* HarmonyStreamParser.currentChannel (<<>> is undefined)
  snap,           \* the snapshot last returned by addContent since construction/reset
  threw,          \* whether the last addContent threw instead of returning
  added,          \* the chunks passed to addContent since construction/reset, in order
  nAdd,           \* number of addContent calls since construction/reset
  outcomes,       \* what each addContent since construction/reset did, in order
  lastReset,      \* the reset calls made in a row just now, and what they cleared
  rtConv,     \* round trip: the conversation given to renderConversation
  rtTokens,   \* round trip: the rendered tokens
  rtOut,      \* round trip: what parseTokens returned (or the error it threw)
  rtPc,       \* round trip: position of the caller
  rtString,   \* round trip: the rendered tokens joined into one string
  rtOutString,\* round trip: what parseConversationFromString returned (or threw)
  ptTokens,   \* parseTokens: the tokens argument
  ptDelims,   \* parseTokens: the delimiters argument
  ptPc,       \* parseTokens: "loop", "returned" or "thrown"
  ptOut,      \* parseTokens: the conversation returned or the error thrown
  ptTry,      \* what tryParseTokens returned for the same arguments (<<>>: not called)
  tkInput,    \* tokenizeCompletionString / isHarmonyFormat: the input argument
  tkDelims,   \* tokenizeCompletionString / isHarmonyFormat: the delimiters argument
  tkI,        \* tokenizeCompletionString: i
  tkTokens,   \* tokenizeCompletionString: tokens
  tkPc,       \* tokenizeCompletionString: "loop" or "returned"
  tkIter,     \* tokenizeCompletionString: parity of the number of loop iterations run
  tkFormat,   \* what isHarmonyFormat returned for the input (<<>>: not called)
  exInput,    \* the string given to the one-shot extract helpers
  exCall,     \* the last call of an extract helper and what it returned
  encoding,   \* loadHarmonyEncoding: "none", "loaded" or "threw", with name and error
  encCall     \* the last call of a function of the loaded encoding

parserVars == <<state, last, nPush, accepted, hist, finished>>
streamVars == <<buffer, currentChannel, snap, threw, added, nAdd, outcomes, lastReset>>
rtVars     == <<rtConv, rtTokens, rtOut, rtPc, rtString, rtOutString>>
ptVars     == <<ptTokens, ptDelims, ptPc, ptOut, ptTry>>
tkVars     == <<tkInput, tkDelims, tkI, tkTokens, tkPc, tkIter, tkFormat>>
exVars     == <<exInput, exCall>>
encVars    == <<encoding, encCall>>
vars       == <<state, last, nPush, accepted, hist, finished, buffer, currentChannel, snap,
                threw, added, nAdd, outcomes, lastReset, rtConv, rtTokens, rtOut, rtPc,
                rtString, rtOutString, ptTokens, ptDelims, ptPc, ptOut, ptTry,
                tkInput, tkDelims, tkI, tkTokens, tkPc, tkIter, tkFormat,
                exInput, exCall, encoding, encCall>>

---------------------------------------------------------------------------
(* Bounds of the model *)

MaxPush == 4
MaxAdd == 3
MaxMessages == 2
MaxContent == 1
MaxResetRun == 2
MaxTokens == 3
MaxPieces == 3
MaxTokensOut == 4
MaxExPieces == 3
MaxEncMessages == 2
MaxEncTokens == 3
MaxFrameTokens == 4
MaxStreamMessages == 2
MaxGroups == 2

---------------------------------------------------------------------------
(* String primitives *)

Min(S) == CHOOSE x \in S : \A y \in S : x <= y
Max(S) == CHOOSE x \in S : \A y \in S : x >= y

\* s.startsWith(p, i)
StartsWithAt(s, p, i) ==
  /\ i >= 0
  /\ i + Len(p) <= Len(s)
  /\ SubSeq(s, i + 1, i + Len(p)) = p

StartsWith(s, p) == StartsWithAt(s, p, 0)

\* s.slice(a, b) and s.slice(a), for 0 <= a
Slice(s, a, b) == SubSeq(s, a + 1, b)
SliceFrom(s, a) == SubSeq(s, a + 1, Len(s))

\* s.indexOf(p, from): the least index >= from where p occurs, or -1
IndexOfFrom(s, p, from) ==
  LET hits == {i \in from..(Len(s) - Len(p)) : StartsWithAt(s, p, i)}
  IN IF hits = {} THEN -1 ELSE Min(hits)

IndexOf(s, p) == IndexOfFrom(s, p, 0)

\* s.lastIndexOf(p)
LastIndexOf(s, p) ==
  LET hits == {i \in 0..(Len(s) - Len(p)) : StartsWithAt(s, p, i)}
  IN IF hits = {} THEN -1 ELSE Max(hits)

\* s.includes(p)
Includes(s, p) == IndexOf(s, p) >= 0

\* White space as matched by \s and removed by String.prototype.trim
WhiteSpace == {" ", "\t", "\n", "\r"}

\* s.trim()
Trim(s) ==
  LET keep == {i \in 1..Len(s) : s[i] \notin WhiteSpace}
  IN IF keep = {} THEN <<>> ELSE SubSeq(s, Min(keep), Max(keep))

---------------------------------------------------------------------------
(* Markers and enumerations *)

START_MARK   == <<"<", "|", "s", "t", "a", "r", "t", "|", ">">>
MESSAGE_MARK == <<"<", "|", "m", "e", "s", "s", "a", "g", "e", "|", ">">>
END_MARK     == <<"<", "|", "e", "n", "d", "|", ">">>
CHANNEL_MARK == <<"<", "|", "c", "h", "a", "n", "n", "e", "l", "|", ">">>

DEFAULT_DELIMS == [start |-> START_MARK, message |-> MESSAGE_MARK, end |-> END_MARK]

R_system    == <<"s", "y", "s", "t", "e", "m">>
R_developer == <<"d", "e", "v", "e", "l", "o", "p", "e", "r">>
R_user      == <<"u", "s", "e", "r">>
R_assistant == <<"a", "s", "s", "i", "s", "t", "a", "n", "t">>
R_tool      == <<"t", "o", "o", "l">>

C_message   == <<"m", "e", "s", "s", "a", "g", "e">>
C_reasoning == <<"r", "e", "a", "s", "o", "n", "i", "n", "g">>
C_tool      == <<"t", "o", "o", "l">>
C_function  == <<"f", "u", "n", "c", "t", "i", "o", "n">>
C_error     == <<"e", "r", "r", "o", "r">>

HarmonyRole == {R_system, R_developer, R_user, R_assistant, R_tool}
HarmonyChannel == {C_message, C_reasoning, C_tool, C_function, C_error}

isHarmonyRole(value) == value \in HarmonyRole
isHarmonyChannel(value) == value \in HarmonyChannel

TEXT_PREFIX == <<"t", "e", "x", "t", ":">>
TOOL_PREFIX == <<"t", "o", "o", "l", ":">>
COLON == <<":">>

---------------------------------------------------------------------------
(* JSON.stringify and JSON.parse, as used for tool-call arguments.         *)
(* A decoded value is a record [t, n, s, items]: t is the kind ("null",    *)
(* "true", "false", "num", "str", "arr", "obj"), n the number, s the       *)
(* string, items the members in order, each [k |-> key, v |-> value] (k is *)
(* empty for array elements).  The grammar covered: the three literals,    *)
(* unsigned decimal integers, strings without escapes, arrays and objects, *)
(* with white space between tokens.                                        *)

JV(t, n, s, items) == [t |-> t, n |-> n, s |-> s, items |-> items]
JNull == JV("null", 0, <<>>, <<>>)
JTrue == JV("true", 0, <<>>, <<>>)
JFalse == JV("false", 0, <<>>, <<>>)
JNum(n) == JV("num", n, <<>>, <<>>)
JStr(s) == JV("str", 0, s, <<>>)
JArr(items) == JV("arr", 0, <<>>, items)
JObj(items) == JV("obj", 0, <<>>, items)
JItem(k, v) == [k |-> k, v |-> v]

DigitChars == <<"0", "1", "2", "3", "4", "5", "6", "7", "8", "9">>
DigitSet == {DigitChars[i] : i \in 1..Len(DigitChars)}
DigitVal(c) == (CHOOSE i \in 1..Len(DigitChars) : DigitChars[i] = c) - 1

RECURSIVE Decimal(_)
Decimal(n) ==
  IF n < 10 THEN <<DigitChars[n + 1]>>
  ELSE Decimal(n \div 10) \o <<DigitChars[(n % 10) + 1]>>

QUOTE == "\""
BACKSLASH == "\\"

RECURSIVE JSONStringify(_)
RECURSIVE StringifyItems(_, _)
StringifyItems(items, isObj) ==
  IF items = <<>> THEN <<>>
  ELSE LET it == Head(items)
           one == (IF isObj THEN <<QUOTE>> \o it.k \o <<QUOTE, ":">> ELSE <<>>)
                    \o JSONStringify(it.v)
       IN IF Len(items) = 1 THEN one
          ELSE one \o <<",">> \o StringifyItems(Tail(items), isObj)

JSONStringify(v) ==
  CASE v.t = "null"  -> <<"n", "u", "l", "l">>
    [] v.t = "true"  -> <<"t", "r", "u", "e">>
    [] v.t = "false" -> <<"f", "a", "l", "s", "e">>
    [] v.t = "num"   -> Decimal(v.n)
    [] v.t = "str"   -> <<QUOTE>> \o v.s \o <<QUOTE>>
    [] v.t = "arr"   -> <<"[">> \o StringifyItems(v.items, FALSE) \o <<"]">>
    [] v.t = "obj"   -> <<"{">> \o StringifyItems(v.items, TRUE) \o <<"}">>

JFail == [ok |-> FALSE, v |-> JNull, next |-> 0]
JOk(v, next) == [ok |-> TRUE, v |-> v, next |-> next]

\* index (1-based) of the first character at or after i that is not white space
SkipWs(s, i) ==
  LET rest == {j \in i..Len(s) : s[j] \notin WhiteSpace}
  IN IF rest = {} THEN Len(s) + 1 ELSE Min(rest)

\* does the literal w stand at 1-based index i of s
LitAt(s, w, i) == StartsWithAt(s, w, i - 1)

RECURSIVE NumberEnd(_, _)
NumberEnd(s, i) ==
  IF i <= Len(s) /\ s[i] \in DigitSet THEN NumberEnd(s, i + 1) ELSE i

RECURSIVE NumberVal(_, _, _)
NumberVal(s, i, j) ==
  IF j < i THEN 0 ELSE 10 * NumberVal(s, i, j - 1) + DigitVal(s[j])

\* a string token starting with the quote at 1-based index i
JParseString(s, i) ==
  LET closing == {j \in (i + 1)..Len(s) : s[j] = QUOTE}
  IN IF i > Len(s) \/ s[i] # QUOTE \/ closing = {} THEN JFail
     ELSE LET k == Min(closing)
              body == SubSeq(s, i + 1, k - 1)
          IN IF \E j \in 1..Len(body) : body[j] = BACKSLASH \/ body[j] \in {"\n", "\t", "\r"}
             THEN JFail
             ELSE JOk(JStr(body), k + 1)

\* The members of an array or object are read by a chain of steps, each given
\* what the step before it found: JParseItems (skip white space), JItemsAt
\* (closing bracket of an empty container, or a member), JMemberKey and
\* JMemberColon (the key and ':' of an object member), JMemberValue (the
\* member's value), JMemberEnd (',' and the next member, or the closing
\* bracket).  acc holds the members read so far.
RECURSIVE JParseValue(_, _)
RECURSIVE JParseItems(_, _, _, _)
RECURSIVE JItemsAt(_, _, _, _)
RECURSIVE JMemberKey(_, _, _)
RECURSIVE JMemberColon(_, _, _, _)
RECURSIVE JMemberValue(_, _, _, _, _)
RECURSIVE JMemberEnd(_, _, _, _)

JCloser(isObj) == IF isObj THEN "}" ELSE "]"
JContainer(isObj, items) == IF isObj THEN JObj(items) ELSE JArr(items)

JMemberEnd(s, e, isObj, acc) ==
  IF e > Len(s) THEN JFail
  ELSE IF s[e] = "," THEN JParseItems(s, e + 1, isObj, acc)
  ELSE IF s[e] = JCloser(isObj) THEN JOk(JContainer(isObj, acc), e + 1)
  ELSE JFail

JMemberValue(s, k, val, isObj, acc) ==
  IF ~val.ok THEN JFail
  ELSE JMemberEnd(s, SkipWs(s, val.next), isObj, Append(acc, JItem(k, val.v)))

JMemberColon(s, k, c, acc) ==
  IF c > Len(s) \/ s[c] # ":" THEN JFail
  ELSE JMemberValue(s, k, JParseValue(s, c + 1), TRUE, acc)

JMemberKey(s, key, acc) ==
  IF ~key.ok THEN JFail
  ELSE JMemberColon(s, key.v.s, SkipWs(s, key.next), acc)

JItemsAt(s, j, isObj, acc) ==
  IF j > Len(s) THEN JFail
  ELSE IF acc = <<>> /\ s[j] = JCloser(isObj)
  THEN JOk(JContainer(isObj, acc), j + 1)
  ELSE IF isObj THEN JMemberKey(s, JParseString(s, j), acc)
  ELSE JMemberValue(s, <<>>, JParseValue(s, j), FALSE, acc)

\* the members after "[" or "{" (or after a comma)
JParseItems(s, i, isObj, acc) == JItemsAt(s, SkipWs(s, i), isObj, acc)

JParseValue(s, i) ==
  LET j == SkipWs(s, i)
  IN IF j > Len(s) THEN JFail
     ELSE IF LitAt(s, <<"n", "u", "l", "l">>, j) THEN JOk(JNull, j + 4)
     ELSE IF LitAt(s, <<"t", "r", "u", "e">>, j) THEN JOk(JTrue, j + 4)
     ELSE IF LitAt(s, <<"f", "a", "l", "s", "e">>, j) THEN JOk(JFalse, j + 5)
     ELSE IF s[j] = QUOTE THEN JParseString(s, j)
     ELSE IF s[j] = "0" THEN JOk(JNum(0), j + 1)
     ELSE IF s[j] \in DigitSet
     THEN LET e == NumberEnd(s, j) IN JOk(JNum(NumberVal(s, j, e - 1)), e)
     ELSE IF s[j] \in {"[", "{"} THEN JParseItems(s, j + 1, s[j] = "{", <<>>)
     ELSE JFail

\* JSON.parse(s): [ok |-> FALSE] stands for the SyntaxError it throws
JSONParse(s) ==
  LET r == JParseValue(s, 1)
  IN IF r.ok /\ SkipWs(s, r.next) > Len(s)
     THEN [ok |-> TRUE, v |-> r.v]
     ELSE [ok |-> FALSE, v |-> JNull]

---------------------------------------------------------------------------
(* Conversations.  A content chunk is a record with the fields of both     *)
(* variants of HarmonyContentChunk; the fields a variant lacks are empty.  *)

NoCall == [namespace |-> <<>>, name |-> <<>>, arguments |-> JNull]

TextChunk(channel, text) ==
  [type |-> "text", channel |-> channel, text |-> text, call |-> NoCall]

ToolChunk(namespace, name, arguments) ==
  [type |-> "tool_call", channel |-> C_tool, text |-> <<>>,
   call |-> [namespace |-> namespace, name |-> name, arguments |-> arguments]]

HarmonyMessage(role, content) == [role |-> role, content |-> content]

---------------------------------------------------------------------------
(* renderConversation *)

RenderChunk(chunk) ==
  IF chunk.type = "text"
  THEN TEXT_PREFIX \o chunk.channel \o COLON \o chunk.text
  ELSE TOOL_PREFIX \o chunk.call.namespace \o COLON \o chunk.call.name \o COLON
         \o JSONStringify(chunk.call.arguments)

RECURSIVE RenderContent(_, _)
RenderContent(content, delims) ==
  IF content = <<>> THEN <<>>
  ELSE <<delims.message, RenderChunk(Head(content))>>
         \o RenderContent(Tail(content), delims)

RECURSIVE RenderMessages(_, _)
RenderMessages(messages, delims) ==
  IF messages = <<>> THEN <<>>
  ELSE LET message == Head(messages)
       IN <<delims.start \o message.role>>
            \o RenderContent(message.content, delims)
            \o <<delims.end>>
            \o RenderMessages(Tail(messages), delims)

renderConversation(conversation, delims) ==
  RenderMessages(conversation.messages, delims)

---------------------------------------------------------------------------
(* createParser: push and finish.  state.current and                       *)
(* state.lastStreamingChannel are <<>> when undefined and <<x>> when set;  *)
(* state.expectingPayload starts undefined, which the code reads as false. *)

InitialState ==
  [messages |-> <<>>, current |-> <<>>, lastStreamingChannel |-> <<>>,
   expectingPayload |-> FALSE]

NoError == [code |-> "", token |-> <<>>, detail |-> <<>>]
HarmonyError(code, token, detail) == [code |-> code, token |-> token, detail |-> detail]

\* a push that returns normally from branch ret, and one that throws
Returned(st, ret) == [state |-> st, error |-> NoError, ret |-> ret]
Thrown(st, err) == [state |-> st, error |-> err, ret |-> "throw"]

\* state.messages after the open message, if any, was pushed onto it
Closed(st) ==
  IF st.current # <<>> THEN Append(st.messages, st.current[1]) ELSE st.messages

\* state.current.content.push(chunk)
WithChunk(st, chunk) ==
  [st EXCEPT !.current = <<[st.current[1] EXCEPT !.content = Append(@, chunk)]>>,
             !.expectingPayload = FALSE]

\* PushStart, had it closed the open message before validating the role
PushStart_CloseFirst(st, token, delims) ==
  LET roleRaw == SliceFrom(token, Len(delims.start))
      closed == [st EXCEPT !.messages = Closed(st), !.current = <<>>]
  IN IF ~isHarmonyRole(roleRaw)
     THEN Thrown(closed, HarmonyError("INVALID_ROLE", token, roleRaw))
     ELSE Returned([messages |-> Closed(st),
                    current |-> <<HarmonyMessage(roleRaw, <<>>)>>,
                    lastStreamingChannel |-> <<>>,
                    expectingPayload |-> FALSE], "start")

\* PushStart, had it replaced the open message without appending it
PushStart_NoClose(st, token, delims) ==
  LET roleRaw == SliceFrom(token, Len(delims.start))
  IN IF ~isHarmonyRole(roleRaw)
     THEN Thrown(st, HarmonyError("INVALID_ROLE", token, roleRaw))
     ELSE Returned([messages |-> st.messages,
                    current |-> <<HarmonyMessage(roleRaw, <<>>)>>,
                    lastStreamingChannel |-> <<>>,
                    expectingPayload |-> FALSE], "start")

\* PushStart, had it kept the recorded channel and the expecting-payload flag
PushStart_KeepsFlags(st, token, delims) ==
  LET roleRaw == SliceFrom(token, Len(delims.start))
  IN IF ~isHarmonyRole(roleRaw)
     THEN Thrown(st, HarmonyError("INVALID_ROLE", token, roleRaw))
     ELSE Returned([st EXCEPT !.messages = Closed(st),
                              !.current = <<HarmonyMessage(roleRaw, <<>>)>>], "start")

PushStart(st, token, delims) ==
  LET roleRaw == SliceFrom(token, Len(delims.start))
  IN IF ~isHarmonyRole(roleRaw)
     THEN Thrown(st, HarmonyError("INVALID_ROLE", token, roleRaw))
     ELSE Returned([messages |-> Closed(st),
                    current |-> <<HarmonyMessage(roleRaw, <<>>)>>,
                    lastStreamingChannel |-> <<>>,
                    expectingPayload |-> FALSE], "start")

PushChannel(st, token) ==
  LET channelName == SliceFrom(token, Len(CHANNEL_MARK))
  IN IF Len(channelName) > 0
     THEN Returned([st EXCEPT !.lastStreamingChannel = <<channelName>>], "channel")
     ELSE Returned(st, "channel")

PushMessageMarker(st) ==
  Returned([st EXCEPT !.expectingPayload = TRUE], "message")

PushEnd(st) ==
  Returned([messages |-> Closed(st),
            current |-> <<>>,
            lastStreamingChannel |-> <<>>,
            expectingPayload |-> FALSE], "end")

\* PushOutside, had it raised the kind of the unknown-prefix error
PushOutside_AsUnknown(st, token) ==
  Thrown(st, HarmonyError("UNKNOWN_TOKEN", token, <<>>))

\* PushOutside, had content outside a message been dropped silently
PushOutside_Silent(st, token) == Returned(st, "ignored")

PushOutside(st, token) ==
  Thrown(st, HarmonyError("UNEXPECTED_TOKEN", token, <<>>))

\* PushText, had it accepted any channel name
PushText_NoChannelCheck(st, token) ==
  LET after == SliceFrom(token, Len(TEXT_PREFIX))
      sep == IndexOf(after, COLON)
      channelRaw == Slice(after, 0, sep)
      text == SliceFrom(after, sep + 1)
  IN IF sep < 0 THEN Thrown(st, HarmonyError("INVALID_TEXT", token, <<>>))
     ELSE Returned(WithChunk(st, TextChunk(channelRaw, text)), "text")

\* PushText, had it split at the last separator instead of the first
PushText_LastSep(st, token) ==
  LET after == SliceFrom(token, Len(TEXT_PREFIX))
      sep == LastIndexOf(after, COLON)
      channelRaw == Slice(after, 0, sep)
      text == SliceFrom(after, sep + 1)
  IN IF sep < 0 THEN Thrown(st, HarmonyError("INVALID_TEXT", token, <<>>))
     ELSE IF ~isHarmonyChannel(channelRaw)
     THEN Thrown(st, HarmonyError("INVALID_CHANNEL", token, channelRaw))
     ELSE Returned(WithChunk(st, TextChunk(channelRaw, text)), "text")

PushText(st, token) ==
  LET after == SliceFrom(token, Len(TEXT_PREFIX))
      sep == IndexOf(after, COLON)
      channelRaw == Slice(after, 0, sep)
      text == SliceFrom(after, sep + 1)
  IN IF sep < 0 THEN Thrown(st, HarmonyError("INVALID_TEXT", token, <<>>))
     ELSE IF ~isHarmonyChannel(channelRaw)
     THEN Thrown(st, HarmonyError("INVALID_CHANNEL", token, channelRaw))
     ELSE Returned(WithChunk(st, TextChunk(channelRaw, text)), "text")

\* PushTool, had it cleared the expecting-payload flag before decoding
PushTool_ClearsFlag(st, token) ==
  LET rest == SliceFrom(token, Len(TOOL_PREFIX))
      first == IndexOf(rest, COLON)
      second == IndexOfFrom(rest, COLON, first + 1)
      namespace == Slice(rest, 0, first)
      name == Slice(rest, first + 1, second)
      argsRaw == SliceFrom(rest, second + 1)
      parsed == JSONParse(argsRaw)
  IN IF first < 0 \/ second < 0
     THEN Thrown(st, HarmonyError("INVALID_TOOL", token, <<>>))
     ELSE IF ~parsed.ok
     THEN Thrown([st EXCEPT !.expectingPayload = FALSE],
                 HarmonyError("INVALID_TOOL_ARGS", token, argsRaw))
     ELSE Returned(WithChunk(st, ToolChunk(namespace, name, parsed.v)), "tool")

\* PushTool, had it taken the arguments from the last separator on
PushTool_LastSep(st, token) ==
  LET rest == SliceFrom(token, Len(TOOL_PREFIX))
      first == IndexOf(rest, COLON)
      second == IndexOfFrom(rest, COLON, first + 1)
      namespace == Slice(rest, 0, first)
      name == Slice(rest, first + 1, second)
      argsRaw == SliceFrom(rest, LastIndexOf(rest, COLON) + 1)
      parsed == JSONParse(argsRaw)
  IN IF first < 0 \/ second < 0
     THEN Thrown(st, HarmonyError("INVALID_TOOL", token, <<>>))
     ELSE IF ~parsed.ok
     THEN Thrown(st, HarmonyError("INVALID_TOOL_ARGS", token, argsRaw))
     ELSE Returned(WithChunk(st, ToolChunk(namespace, name, parsed.v)), "tool")

PushTool(st, token) ==
  LET rest == SliceFrom(token, Len(TOOL_PREFIX))
      first == IndexOf(rest, COLON)
      second == IndexOfFrom(rest, COLON, first + 1)
      namespace == Slice(rest, 0, first)
      name == Slice(rest, first + 1, second)
      argsRaw == SliceFrom(rest, second + 1)
      parsed == JSONParse(argsRaw)
  IN IF first < 0 \/ second < 0
     THEN Thrown(st, HarmonyError("INVALID_TOOL", token, <<>>))
     ELSE IF ~parsed.ok
     THEN Thrown(st, HarmonyError("INVALID_TOOL_ARGS", token, argsRaw))
     ELSE Returned(WithChunk(st, ToolChunk(namespace, name, parsed.v)), "tool")

\* PushRaw, had it tolerated any payload after a message marker
PushRaw_AnyChannel(st, token) ==
  IF st.expectingPayload
  THEN Returned([st EXCEPT !.expectingPayload = FALSE], "ignored")
  ELSE Thrown(st, HarmonyError("UNKNOWN_TOKEN", token, <<>>))

\* PushRaw, had it kept the tolerated payload as text of the open message
PushRaw_Embeds(st, token) ==
  IF st.expectingPayload /\ st.lastStreamingChannel # <<>>
  THEN Returned(WithChunk(st, TextChunk(C_message, token)), "ignored")
  ELSE Thrown(st, HarmonyError("UNKNOWN_TOKEN", token, <<>>))

PushRaw(st, token) ==
  IF st.expectingPayload /\ st.lastStreamingChannel # <<>>
  THEN Returned([st EXCEPT !.expectingPayload = FALSE], "ignored")
  ELSE Thrown(st, HarmonyError("UNKNOWN_TOKEN", token, <<>>))

\* push(token, delimiters): the state it leaves, and the error it throws if any
PushOp(st, token, delims) ==
  IF StartsWith(token, delims.start) THEN PushStart(st, token, delims)
  ELSE IF StartsWith(token, CHANNEL_MARK) THEN PushChannel(st, token)
  ELSE IF token = delims.message THEN PushMessageMarker(st)
  ELSE IF token = delims.end THEN PushEnd(st)
  ELSE IF st.current = <<>> THEN PushOutside(st, token)
  ELSE IF StartsWith(token, TEXT_PREFIX) THEN PushText(st, token)
  ELSE IF StartsWith(token, TOOL_PREFIX) THEN PushTool(st, token)
  ELSE PushRaw(st, token)

\* finish(): the state it leaves; the conversation returned is its messages
FinishOp(st) == [st EXCEPT !.messages = Closed(st), !.current = <<>>]

\* parseTokens: the pushes in order, stopping at the first that throws
RECURSIVE PushAll(_, _, _)
PushAll(st, tokens, delims) ==
  IF tokens = <<>> THEN Returned(st, "done")
  ELSE LET r == PushOp(st, Head(tokens), delims)
       IN IF r.error.code # "" THEN r
          ELSE PushAll(r.state, Tail(tokens), delims)

parseTokens(tokens, delims) ==
  LET r == PushAll(InitialState, tokens, delims)
  IN IF r.error.code # ""
     THEN [ok |-> FALSE, value |-> [messages |-> <<>>], error |-> r.error]
     ELSE [ok |-> TRUE, value |-> [messages |-> FinishOp(r.state).messages],
           error |-> NoError]

\* err instanceof HarmonyError: push throws nothing else (the SyntaxError of
\* JSON.parse is caught in the tool branch), and every HarmonyError has a code
IsHarmonyError(err) == err.code # ""

\* tryParseTokens, had it reported every failure as UNKNOWN_ERROR
tryParseTokens_Unknown(tokens, delims) ==
  LET r == parseTokens(tokens, delims)
  IN IF r.ok THEN [ok |-> TRUE, value |-> r.value, error |-> NoError]
     ELSE [ok |-> FALSE, value |-> [messages |-> <<>>],
           error |-> HarmonyError("UNKNOWN_ERROR", <<>>, <<>>)]

\* tryParseTokens: ok with the value returned, or not ok with the error caught
tryParseTokens(tokens, delims) ==
  LET r == parseTokens(tokens, delims)
  IN IF r.ok THEN [ok |-> TRUE, value |-> r.value, error |-> NoError]
     ELSE IF IsHarmonyError(r.error)
     THEN [ok |-> FALSE, value |-> [messages |-> <<>>], error |-> r.error]
     ELSE [ok |-> FALSE, value |-> [messages |-> <<>>],
           error |-> HarmonyError("UNKNOWN_ERROR", <<>>, <<>>)]

---------------------------------------------------------------------------
(* tokenizeCompletionString, parseConversationFromString, isHarmonyFormat *)

\* the characters matched by /[a-z]/
LowerCase ==
  {"a", "b", "c", "d", "e", "f", "g", "h", "i", "j", "k", "l", "m",
   "n", "o", "p", "q", "r", "s", "t", "u", "v", "w", "x", "y", "z"}

\* the characters matched by /[A-Z]/
UpperCase ==
  {"A", "B", "C", "D", "E", "F", "G", "H", "I", "J", "K", "L", "M",
   "N", "O", "P", "Q", "R", "S", "T", "U", "V", "W", "X", "Y", "Z"}

\* the inner loop of the start branch: j after it ran from j on
RECURSIVE RoleEnd(_, _)
RoleEnd(input, j) ==
  IF j < Len(input) /\ input[j + 1] \in LowerCase THEN RoleEnd(input, j + 1) ELSE j

\* findNextDelimiterIndex, had it returned the first index found, not the least
findNextDelimiterIndex_First(input, from, delims) ==
  IF IndexOfFrom(input, delims.start, from) >= 0
  THEN IndexOfFrom(input, delims.start, from)
  ELSE IF IndexOfFrom(input, delims.message, from) >= 0
  THEN IndexOfFrom(input, delims.message, from)
  ELSE IF IndexOfFrom(input, delims.end, from) >= 0
  THEN IndexOfFrom(input, delims.end, from)
  ELSE Len(input)

findNextDelimiterIndex(input, from, delims) ==
  LET indices == {IndexOfFrom(input, delims.start, from),
                  IndexOfFrom(input, delims.message, from),
                  IndexOfFrom(input, delims.end, from)}
      idxs == {x \in indices : x >= 0}
  IN IF idxs = {} THEN Len(input) ELSE Min(idxs)

\* TokPayload, had it trimmed the payload
TokPayload_Trimmed(input, i, nextIdx) ==
  [push |-> IF Len(Trim(Slice(input, i, nextIdx))) > 0
            THEN <<Trim(Slice(input, i, nextIdx))>>
            ELSE <<>>,
   i |-> nextIdx]

\* the payload branch of the loop body, given nextIdx
TokPayload(input, i, nextIdx) ==
  [push |-> IF Len(Slice(input, i, nextIdx)) > 0 THEN <<Slice(input, i, nextIdx)>>
            ELSE <<>>,
   i |-> nextIdx]

\* one iteration of the while loop at index i: the tokens it pushes (none or
\* one) and the value it leaves in i
TokStep(input, i, delims) ==
  IF StartsWithAt(input, delims.start, i)
  THEN [push |-> <<Slice(input, i, RoleEnd(input, i + Len(delims.start)))>>,
        i |-> RoleEnd(input, i + Len(delims.start))]
  ELSE IF StartsWithAt(input, delims.message, i)
  THEN [push |-> <<delims.message>>, i |-> i + Len(delims.message)]
  ELSE IF StartsWithAt(input, delims.end, i)
  THEN [push |-> <<delims.end>>, i |-> i + Len(delims.end)]
  ELSE TokPayload(input, i, findNextDelimiterIndex(input, i, delims))

RECURSIVE TokLoop(_, _, _, _)
TokLoop(input, i, delims, tokens) ==
  IF i < Len(input)
  THEN TokLoop(input, TokStep(input, i, delims).i, delims,
               tokens \o TokStep(input, i, delims).push)
  ELSE tokens

\* tokenizeCompletionString, for arguments on which its loop ends
tokenizeCompletionString(input, delims) == TokLoop(input, 0, delims, <<>>)

parseConversationFromString(input, delims) ==
  parseTokens(tokenizeCompletionString(input, delims), delims)

\* JavaScript values passed as the input of isHarmonyFormat
JsString(s) == [type |-> "string", s |-> s]
JsUndefined == [type |-> "undefined", s |-> <<>>]
JsNull == [type |-> "object", s |-> <<>>]
JsNumber == [type |-> "number", s |-> <<>>]

\* isHarmonyFormat, had a start marker done in place of the channel marker
isHarmonyFormat_StartSuffices(input, delims) ==
  IF input.type # "string" \/ Len(input.s) = 0 THEN FALSE
  ELSE /\ Includes(input.s, delims.start) \/ Includes(input.s, CHANNEL_MARK)
       /\ Includes(input.s, delims.message) \/ Includes(input.s, delims.end)

isHarmonyFormat(input, delims) ==
  IF input.type # "string" \/ Len(input.s) = 0 THEN FALSE
  ELSE /\ Includes(input.s, delims.start) \/ Includes(input.s, CHANNEL_MARK)
       /\ Includes(input.s, CHANNEL_MARK)
       /\ Includes(input.s, delims.message) \/ Includes(input.s, delims.end)

---------------------------------------------------------------------------
(* HarmonyStreamParser.  The regular expressions of the source are         *)
(* computed on characters.  None of the four markers can overlap itself    *)
(* ("<" occurs only at its start), so the matches of a marker are all its  *)
(* occurrences.                                                            *)

S_analysis == <<"a", "n", "a", "l", "y", "s", "i", "s">>
S_final == <<"f", "i", "n", "a", "l">>
S_commentary == <<"c", "o", "m", "m", "e", "n", "t", "a", "r", "y">>
NEWLINE == <<"\n">>

\* the indices at which p occurs in s
Occurrences(s, p) == {i \in 0..(Len(s) - Len(p)) : StartsWithAt(s, p, i)}

\* (s.match(/p/g) || []).length
CountOf(s, p) == Cardinality(Occurrences(s, p))

\* parts.join("\n")
RECURSIVE JoinLines(_)
JoinLines(parts) ==
  IF parts = <<>> THEN <<>>
  ELSE IF Len(parts) = 1 THEN parts[1]
  ELSE parts[1] \o NEWLINE \o JoinLines(Tail(parts))

\* the run matched by [^<\s]+ from index i on (empty: no match there)
NameRun(s, i) ==
  LET stops == {j \in i..(Len(s) - 1) : s[j + 1] = "<" \/ s[j + 1] \in WhiteSpace}
  IN Slice(s, i, IF stops = {} THEN Len(s) ELSE Min(stops))

\* detectCurrentChannel, had it taken the first declaration of the buffer
detectCurrentChannel_First(buf, cur) ==
  LET matches == {i \in Occurrences(buf, CHANNEL_MARK) :
                    NameRun(buf, i + Len(CHANNEL_MARK)) # <<>>}
  IN IF matches = {} THEN cur
     ELSE <<NameRun(buf, Min(matches) + Len(CHANNEL_MARK))>>

\* detectCurrentChannel, had it read the name after the last channel marker,
\* present or not
detectCurrentChannel_LastMarker(buf, cur) ==
  LET marks == Occurrences(buf, CHANNEL_MARK)
  IN IF marks = {} THEN cur
     ELSE IF NameRun(buf, Max(marks) + Len(CHANNEL_MARK)) = <<>> THEN <<>>
     ELSE <<NameRun(buf, Max(marks) + Len(CHANNEL_MARK))>>

\* detectCurrentChannel, had it kept the first name it ever detected
detectCurrentChannel_Sticky(buf, cur) ==
  LET matches == {i \in Occurrences(buf, CHANNEL_MARK) :
                    NameRun(buf, i + Len(CHANNEL_MARK)) # <<>>}
  IN IF cur # <<>> \/ matches = {} THEN cur
     ELSE <<NameRun(buf, Max(matches) + Len(CHANNEL_MARK))>>

\* detectCurrentChannel: this.currentChannel after it ran on buffer buf
detectCurrentChannel(buf, cur) ==
  LET matches == {i \in Occurrences(buf, CHANNEL_MARK) :
                    NameRun(buf, i + Len(CHANNEL_MARK)) # <<>>}
  IN IF matches = {} THEN cur
     ELSE <<NameRun(buf, Max(matches) + Len(CHANNEL_MARK))>>

\* The bodies, trimmed and in order, matched in input from index from on by
\*   <\|channel\|>NAME<\|message\|>(.*?)(?:(?=<\|channel\|>)|<\|end\|>|$)   (flags gs)
\* for a NAME of literal characters: the lazy body ends at the first channel
\* marker (not consumed), the first end marker (consumed) or the end of input.
RECURSIVE ChannelBodies(_, _, _)
ChannelBodies(input, channel, from) ==
  LET head == CHANNEL_MARK \o channel \o MESSAGE_MARK
      idx == IndexOfFrom(input, head, from)
      bodyStart == idx + Len(head)
      stops == {p \in bodyStart..(Len(input) - 1) :
                  StartsWithAt(input, CHANNEL_MARK, p) \/ StartsWithAt(input, END_MARK, p)}
      bodyEnd == IF stops = {} THEN Len(input) ELSE Min(stops)
      lastIndex == IF StartsWithAt(input, END_MARK, bodyEnd)
                   THEN bodyEnd + Len(END_MARK) ELSE bodyEnd
  IN IF idx < 0 THEN <<>>
     ELSE <<Trim(Slice(input, bodyStart, bodyEnd))>>
            \o ChannelBodies(input, channel, lastIndex)

NonEmpty(parts) == SelectSeq(parts, LAMBDA t : Len(t) > 0)

collectChannelText(input, channel) ==
  JoinLines(NonEmpty(ChannelBodies(input, channel, 0)))

\* new RegExp(...) in collectLastChannelText interpolates the channel name
\* into the pattern unescaped.  For names made of letters, digits, "(", ")"
\* and "[": the constructor throws a SyntaxError when the parentheses of the
\* name do not balance or the name opens a character class (the rest of the
\* pattern holds no "]").
RECURSIVE ParenDepthOk(_, _)
ParenDepthOk(name, depth) ==
  IF name = <<>> THEN depth = 0
  ELSE IF Head(name) = "(" THEN ParenDepthOk(Tail(name), depth + 1)
  ELSE IF Head(name) = ")" THEN depth > 0 /\ ParenDepthOk(Tail(name), depth - 1)
  ELSE ParenDepthOk(Tail(name), depth)

RegExpThrows(channel) ==
  \/ ~ParenDepthOk(channel, 0)
  \/ \E i \in 1..Len(channel) : channel[i] = "["

\* collectLastChannelText, had it kept the first non-empty body
collectLastChannelText_First(input, channel) ==
  IF RegExpThrows(channel) THEN [threw |-> TRUE, text |-> <<>>]
  ELSE LET parts == NonEmpty(ChannelBodies(input, channel, 0))
       IN [threw |-> FALSE,
           text |-> IF parts = <<>> THEN <<>> ELSE parts[1]]

\* collectLastChannelText: [threw |-> TRUE] stands for the SyntaxError
collectLastChannelText(input, channel) ==
  IF RegExpThrows(channel) THEN [threw |-> TRUE, text |-> <<>>]
  ELSE LET parts == NonEmpty(ChannelBodies(input, channel, 0))
       IN [threw |-> FALSE,
           text |-> IF parts = <<>> THEN <<>> ELSE parts[Len(parts)]]

extractIncompleteContentFromWindow(win) ==
  LET all == Occurrences(win, MESSAGE_MARK)
      idx == Max(all) + Len(MESSAGE_MARK)
      after == SliceFrom(win, idx)
  IN IF all = {} THEN <<>>
     ELSE IF Includes(after, END_MARK) THEN <<>>
     ELSE Trim(after)

NoSnapshot ==
  [kind |-> "none", isComplete |-> FALSE, currentAnalysis |-> <<>>,
   currentFinal |-> <<>>, currentCommentary |-> <<>>,
   lastChannelDetected |-> <<>>, bufferContent |-> <<>>]

Snapshot(isComplete, analysis, final, commentary, detected, buf) ==
  [kind |-> "snapshot", isComplete |-> isComplete, currentAnalysis |-> analysis,
   currentFinal |-> final, currentCommentary |-> commentary,
   lastChannelDetected |-> detected, bufferContent |-> buf]

\* base, with the in-progress content appended when name is the active channel
WithIncomplete(base, name, cur, incomplete) ==
  IF Len(incomplete) > 0 /\ cur = <<name>>
  THEN IF Len(base) > 0 THEN base \o NEWLINE \o incomplete ELSE incomplete
  ELSE base

\* WithLastOnly, had the last segment never replaced the text
WithLastOnly_Keep(text, name, cur, lastOnly) == text

\* text, replaced by the last segment when name is the active channel
WithLastOnly(text, name, cur, lastOnly) ==
  IF cur = <<name>> /\ Len(lastOnly) > 0 THEN lastOnly ELSE text

\* isComplete, had one start marker and one end marker been enough
isComplete_EndSeen(buf) ==
  /\ CountOf(buf, START_MARK) > 0
  /\ CountOf(buf, END_MARK) > 0

\* const isComplete of parseCurrentBuffer
isComplete(buf) ==
  /\ CountOf(buf, START_MARK) = CountOf(buf, END_MARK)
  /\ CountOf(buf, START_MARK) > 0

\* hasHarmonyMarkers, had the end marker counted as well
hasHarmonyMarkers_WithEnd(buf) ==
  \/ Includes(buf, START_MARK)
  \/ Includes(buf, CHANNEL_MARK)
  \/ Includes(buf, MESSAGE_MARK)
  \/ Includes(buf, END_MARK)

\* const hasHarmonyMarkers of parseCurrentBuffer
hasHarmonyMarkers(buf) ==
  \/ Includes(buf, START_MARK)
  \/ Includes(buf, CHANNEL_MARK)
  \/ Includes(buf, MESSAGE_MARK)

\* messageWindow, had it been the whole buffer
messageWindow_WholeBuffer(buf) == buf

\* const messageWindow of parseCurrentBuffer: from the last start marker (or
\* the start of the buffer) through the first end marker after it (or to the
\* end of the buffer)
messageWindow(buf) ==
  LET lastStartIdx == LastIndexOf(buf, START_MARK)
      windowStart == IF lastStartIdx >= 0 THEN lastStartIdx ELSE 0
      endAfterStartIdx == IndexOfFrom(buf, END_MARK, windowStart)
      windowEnd == IF endAfterStartIdx >= 0
                   THEN endAfterStartIdx + Len(END_MARK) ELSE Len(buf)
  IN Slice(buf, windowStart, windowEnd)

\* parseCurrentBuffer on buffer buf with this.currentChannel = cur:
\* the channel it leaves, whether it threw, and the snapshot it returned
parseCurrentBuffer(buf, cur) ==
  LET channel == detectCurrentChannel(buf, cur)
      incompleteContent == extractIncompleteContentFromWindow(messageWindow(buf))
      lastOnly == IF channel = <<>> THEN [threw |-> FALSE, text |-> <<>>]
                  ELSE collectLastChannelText(messageWindow(buf), channel[1])
      text(name) ==
        WithLastOnly(
          WithIncomplete(collectChannelText(messageWindow(buf), name), name, channel,
                         incompleteContent),
          name, channel, lastOnly.text)
  IN IF ~hasHarmonyMarkers(buf)
     THEN [channel |-> cur, threw |-> FALSE,
           result |-> Snapshot(FALSE, <<>>, buf, <<>>, <<>>, buf)]
     ELSE IF lastOnly.threw
     THEN [channel |-> channel, threw |-> TRUE, result |-> NoSnapshot]
     ELSE [channel |-> channel, threw |-> FALSE,
           result |-> Snapshot(isComplete(buf), text(S_analysis), text(S_final),
                               text(S_commentary), channel, buf)]

---------------------------------------------------------------------------
(* The one-shot extract helpers: extractReasoningContent,                  *)
(* extractFinalContent, extractCommentaryContent over safeExtractChannel.  *)

\* the alternatives of /<\|(start|message|end|channel)\|>/
AnyMarker == {START_MARK, MESSAGE_MARK, END_MARK, CHANNEL_MARK}

\* the markers that match at index i of text (at most one)
MarkersAt(text, i) == {m \in AnyMarker : StartsWithAt(text, m, i)}

\* text.replace(/<\|(start|message|end|channel)\|>/g, "") from index i on:
\* one pass from left to right, the matches taken out and the rest copied
RECURSIVE RemoveMarkers(_, _)
RemoveMarkers(text, i) ==
  IF i >= Len(text) THEN <<>>
  ELSE IF MarkersAt(text, i) # {}
  THEN RemoveMarkers(text, i + Len(CHOOSE m \in MarkersAt(text, i) : TRUE))
  ELSE <<text[i + 1]>> \o RemoveMarkers(text, i + 1)

\* the indices where /<\|[a-zA-Z]*$/ matches: "<|" with letters only up to the end
FragmentStarts(text) ==
  {i \in 0..(Len(text) - 2) :
     /\ text[i + 1] = "<"
     /\ text[i + 2] = "|"
     /\ \A j \in (i + 3)..Len(text) : text[j] \in (LowerCase \cup UpperCase)}

\* text.replace(/<\|[a-zA-Z]*$/g, "")
RemoveFragment(text) ==
  IF FragmentStarts(text) = {} THEN text
  ELSE Slice(text, 0, Min(FragmentStarts(text)))

\* safeExtractChannel, had it taken the first declaration of the channel
safeExtractChannel_First(input, channel) ==
  LET idxChannel == IndexOf(input, CHANNEL_MARK \o channel)
      idxMsg == IndexOfFrom(input, MESSAGE_MARK, idxChannel)
      start == idxMsg + Len(MESSAGE_MARK)
      following == {IndexOfFrom(input, m, start) : m \in {END_MARK, START_MARK, CHANNEL_MARK}}
      end == Min({Len(input)} \cup {t \in following : t >= 0})
  IN IF idxChannel < 0 THEN <<>>
     ELSE IF idxMsg < 0 THEN <<>>
     ELSE Trim(RemoveFragment(RemoveMarkers(Slice(input, start, end), 0)))

safeExtractChannel(input, channel) ==
  LET idxChannel == LastIndexOf(input, CHANNEL_MARK \o channel)
      idxMsg == IndexOfFrom(input, MESSAGE_MARK, idxChannel)
      start == idxMsg + Len(MESSAGE_MARK)
      following == {IndexOfFrom(input, m, start) : m \in {END_MARK, START_MARK, CHANNEL_MARK}}
      end == Min({Len(input)} \cup {t \in following : t >= 0})
  IN IF idxChannel < 0 THEN <<>>
     ELSE IF idxMsg < 0 THEN <<>>
     ELSE Trim(RemoveFragment(RemoveMarkers(Slice(input, start, end), 0)))

extractReasoningContent(input) ==
  IF ~isHarmonyFormat(JsString(input), DEFAULT_DELIMS) THEN <<>>
  ELSE safeExtractChannel(input, S_analysis)

\* extractFinalContent, had it no fallback to the commentary channel
extractFinalContent_NoFallback(input) ==
  IF ~isHarmonyFormat(JsString(input), DEFAULT_DELIMS) THEN input
  ELSE safeExtractChannel(input, S_final)

extractFinalContent(input) ==
  IF ~isHarmonyFormat(JsString(input), DEFAULT_DELIMS) THEN input
  ELSE IF Len(safeExtractChannel(input, S_final)) > 0
  THEN safeExtractChannel(input, S_final)
  ELSE IF Len(safeExtractChannel(input, S_commentary)) > 0
  THEN safeExtractChannel(input, S_commentary)
  ELSE <<>>

extractCommentaryContent(input) ==
  IF ~isHarmonyFormat(JsString(input), DEFAULT_DELIMS) THEN <<>>
  ELSE safeExtractChannel(input, S_commentary)

---------------------------------------------------------------------------
(* loadHarmonyEncoding.  The object it returns has no state: its two       *)
(* functions are modelled as operators of their arguments.                 *)

HARMONY_GPT_OSS == "HARMONY_GPT_OSS"

\* loadHarmonyEncoding(name): the HarmonyError thrown, or NoError when the
\* pair of functions is returned
loadHarmonyEncoding(name) ==
  IF name # HARMONY_GPT_OSS THEN HarmonyError("UNKNOWN_ENCODING", <<>>, <<>>)
  ELSE NoError

\* renderConversationForCompletion, had it opened the next message for the role
renderConversationForCompletion_OpensRole(conversation, role) ==
  renderConversation(conversation, DEFAULT_DELIMS) \o <<START_MARK \o role>>

renderConversationForCompletion(conversation, role) ==
  renderConversation(conversation, DEFAULT_DELIMS)

parseMessagesFromCompletionTokens(tokens, role) ==
  parseTokens(tokens, DEFAULT_DELIMS)

---------------------------------------------------------------------------
(* The tokens pushed into the strict parser *)

S_Hi == <<"H", "i">>
S_math == <<"m", "a", "t", "h">>
S_add == <<"a", "d", "d">>
S_objA1 == <<"{", QUOTE, "a", QUOTE, ":", "1", "}">>

T_startUser  == START_MARK \o R_user
T_startTool  == START_MARK \o R_tool
T_startBad   == START_MARK \o <<"b", "o", "t">>
T_startEmpty == START_MARK
T_chanFinal  == CHANNEL_MARK \o S_final
T_chanEmpty  == CHANNEL_MARK
T_textHi     == TEXT_PREFIX \o C_message \o COLON \o S_Hi
T_textColons == TEXT_PREFIX \o C_reasoning \o COLON \o <<"a", ":", "b">>
T_textEmpty  == TEXT_PREFIX \o C_error \o COLON
T_textNoSep  == TEXT_PREFIX \o C_message
T_textBadCh  == TEXT_PREFIX \o S_final \o COLON \o S_Hi
T_toolOk     == TOOL_PREFIX \o S_math \o COLON \o S_add \o COLON \o S_objA1
T_toolNoSep  == TOOL_PREFIX \o S_math
T_toolOneSep == TOOL_PREFIX \o S_math \o COLON \o S_add
T_toolBadArg == TOOL_PREFIX \o S_math \o COLON \o S_add \o COLON \o <<"{", "a", "}">>
T_toolNoArg  == TOOL_PREFIX \o S_math \o COLON \o S_add \o COLON
T_raw        == S_Hi
T_rawColons  == <<"x", ":", "y", ":", "z">>

Tokens ==
  {T_startUser, T_startTool, T_startBad, T_startEmpty, T_chanFinal, T_chanEmpty,
   MESSAGE_MARK, END_MARK, T_textHi, T_textColons, T_textEmpty, T_textNoSep,
   T_textBadCh, T_toolOk, T_toolNoSep, T_toolOneSep, T_toolBadArg, T_toolNoArg,
   T_raw, T_rawColons}

---------------------------------------------------------------------------
(* The strict parser as a state machine: one parser object, any sequence   *)
(* of push and finish calls.                                               *)

NoHist == [chanSince |-> FALSE, msgSince |-> FALSE, msgAfterChan |-> FALSE]

NoCallYet ==
  [op |-> "init", token |-> <<>>, pre |-> InitialState, error |-> NoError, ret |-> "",
   preHist |-> NoHist]

ParserInit ==
  /\ state = InitialState
  /\ last = NoCallYet
  /\ nPush = 0
  /\ accepted = <<>>
  /\ hist = NoHist
  /\ finished = <<>>

\* no reset call was just made
NoReset == [n |-> 0, hadBuffer |-> FALSE, hadChannel |-> FALSE]

StreamIdle ==
  /\ buffer = <<>>
  /\ currentChannel = <<>>
  /\ snap = NoSnapshot
  /\ threw = FALSE
  /\ added = <<>>
  /\ nAdd = 0
  /\ outcomes = <<>>
  /\ lastReset = NoReset

\* no call of parseTokens or parseConversationFromString has ended yet
NoOutcome == [ok |-> TRUE, value |-> [messages |-> <<>>], error |-> NoError]

RoundTripIdle ==
  /\ rtConv = [messages |-> <<>>]
  /\ rtTokens = <<>>
  /\ rtOut = NoOutcome
  /\ rtPc = "idle"
  /\ rtString = <<>>
  /\ rtOutString = NoOutcome

ParseIdle ==
  /\ ptTokens = <<>>
  /\ ptDelims = DEFAULT_DELIMS
  /\ ptPc = "idle"
  /\ ptOut = NoOutcome
  /\ ptTry = <<>>

TokIdle ==
  /\ tkInput = <<>>
  /\ tkDelims = DEFAULT_DELIMS
  /\ tkI = 0
  /\ tkTokens = <<>>
  /\ tkPc = "idle"
  /\ tkIter = 0
  /\ tkFormat = <<>>

\* no extract helper was called yet
NoExtract == [fn |-> "none", out |-> <<>>]

ExtractIdle ==
  /\ exInput = <<>>
  /\ exCall = NoExtract

\* loadHarmonyEncoding was not called yet
NoEncoding == [status |-> "none", name |-> "", error |-> NoError]

\* no function of the encoding was called yet
NoEncCall ==
  [fn |-> "none", conversation |-> [messages |-> <<>>], tokens |-> <<>>, role |-> <<>>,
   rendered |-> <<>>, parsed |-> NoOutcome]

EncodingIdle ==
  /\ encoding = NoEncoding
  /\ encCall = NoEncCall

Init ==
  /\ ParserInit
  /\ StreamIdle
  /\ RoundTripIdle
  /\ ParseIdle
  /\ TokIdle
  /\ ExtractIdle
  /\ EncodingIdle

\* What the caller has seen of the token sequence once push(token) has returned
\* from branch ret (or thrown):
\*   chanSince: a channel declaration with a name was pushed since the last
\*     accepted start token or end token;
\*   msgSince: a message marker was pushed since the last accepted start token,
\*     end token or accepted payload (text:, tool: or an ignored raw token);
\*   msgAfterChan: this push was a message marker, and the push before it was a
\*     channel-declaration token.
HistAfter(h, prevToken, token, ret) ==
  [chanSince |->
     IF ret \in {"start", "end"} THEN FALSE
     ELSE IF ret = "channel" /\ Len(token) > Len(CHANNEL_MARK) THEN TRUE
     ELSE h.chanSince,
   msgSince |->
     IF ret \in {"start", "end", "text", "tool", "ignored"} THEN FALSE
     ELSE IF ret = "message" THEN TRUE
     ELSE h.msgSince,
   msgAfterChan |-> ret = "message" /\ StartsWith(prevToken, CHANNEL_MARK)]

\* parser.push(token, delims), and what the caller sees of it
PushCall(token, delims) ==
  /\ \E r \in {PushOp(state, token, delims)} :
        /\ state' = r.state
        /\ last' = [op |-> "push", token |-> token, pre |-> state,
                    error |-> r.error, ret |-> r.ret, preHist |-> hist]
        /\ accepted' = IF r.ret = "start"
                       THEN Append(accepted, SliceFrom(token, Len(delims.start)))
                       ELSE accepted
        /\ hist' = HistAfter(hist, IF last.op = "push" THEN last.token ELSE <<>>,
                             token, r.ret)
  /\ nPush' = nPush + 1
  /\ finished' = finished

\* parser.finish(); the object it returns holds state.messages itself
FinishCall ==
  /\ state' = FinishOp(state)
  /\ last' = [op |-> "finish", token |-> <<>>, pre |-> state,
              error |-> NoError, ret |-> "finish", preHist |-> hist]
  /\ hist' = [hist EXCEPT !.msgAfterChan = FALSE]
  /\ finished' = <<[messages |-> FinishOp(state).messages]>>
  /\ UNCHANGED <<nPush, accepted>>

Push(token) ==
  /\ nPush < MaxPush
  /\ PushCall(token, DEFAULT_DELIMS)
  /\ UNCHANGED <<streamVars, rtVars, ptVars, tkVars, exVars, encVars>>

Finish ==
  /\ FinishCall
  /\ UNCHANGED <<streamVars, rtVars, ptVars, tkVars, exVars, encVars>>

Next == (\E token \in Tokens : Push(token)) \/ Finish

Spec == Init /\ [][Next]_vars

---------------------------------------------------------------------------
(* The chunks fed to the extractor *)

K_empty     == <<>>
K_start     == START_MARK
K_chanFin   == CHANNEL_MARK \o <<"f", "i", "n">>
K_alMess    == <<"a", "l", "<", "|", "m", "e", "s", "s">>
K_ageHi     == <<"a", "g", "e", "|", ">", "H", "i">>
K_analysisA == CHANNEL_MARK \o S_analysis \o MESSAGE_MARK \o <<"A", " ">>
K_finalHead == CHANNEL_MARK \o S_final \o MESSAGE_MARK
K_x         == <<"x">>
K_end       == END_MARK
K_chanParen == CHANNEL_MARK \o <<"(">>
K_partial   == <<" ", "<", "|">>
K_chanOnly  == CHANNEL_MARK

Chunks ==
  {K_empty, K_start, K_chanFin, K_alMess, K_ageHi, K_analysisA, K_finalHead, K_x,
   K_end, K_chanParen, K_partial, K_chanOnly}

RECURSIVE Concat(_)
Concat(chunks) ==
  IF chunks = <<>> THEN <<>> ELSE Head(chunks) \o Concat(Tail(chunks))

---------------------------------------------------------------------------
(* The extractor as a state machine: one HarmonyStreamParser object, any   *)
(* sequence of addContent and reset calls.                                 *)

\* addContent: the buffer it leaves and what parseCurrentBuffer did on it
addContent(buf, cur, content) ==
  [buffer |-> buf \o content, parsed |-> parseCurrentBuffer(buf \o content, cur)]

AddContent(content) ==
  /\ nAdd < MaxAdd
  /\ \E r \in {addContent(buffer, currentChannel, content)} :
        /\ buffer' = r.buffer
        /\ currentChannel' = r.parsed.channel
        /\ threw' = r.parsed.threw
        /\ snap' = IF r.parsed.threw THEN snap ELSE r.parsed.result
        /\ outcomes' = Append(outcomes, [threw |-> r.parsed.threw,
                                         isComplete |-> r.parsed.result.isComplete])
  /\ added' = Append(added, content)
  /\ nAdd' = nAdd + 1
  /\ lastReset' = NoReset
  /\ UNCHANGED <<parserVars, rtVars, ptVars, tkVars, exVars, encVars>>

\* reset(), had it cleared the buffer only
reset_KeepChannel == [buffer |-> <<>>, currentChannel |-> currentChannel]

\* reset(): what it assigns to the two fields
reset == [buffer |-> <<>>, currentChannel |-> <<>>]

\* the caller's record of the reset calls made in a row: how many (counted up
\* to MaxResetRun) and whether the two fields were set before the first of them
ResetRun(run, buf, cur) ==
  IF run.n = 0 THEN [n |-> 1, hadBuffer |-> buf # <<>>, hadChannel |-> cur # <<>>]
  ELSE [run EXCEPT !.n = Min({run.n + 1, MaxResetRun})]

Reset ==
  /\ buffer' = reset.buffer
  /\ currentChannel' = reset.currentChannel
  /\ snap' = NoSnapshot
  /\ threw' = FALSE
  /\ added' = <<>>
  /\ nAdd' = 0
  /\ outcomes' = <<>>
  /\ lastReset' = ResetRun(lastReset, buffer, currentChannel)
  /\ UNCHANGED <<parserVars, rtVars, ptVars, tkVars, exVars, encVars>>

StreamNext == (\E content \in Chunks : AddContent(content)) \/ Reset

StreamSpec == Init /\ [][StreamNext]_vars

---------------------------------------------------------------------------
(* HarmonyStreamParser fed with whole segments: bodies of the analysis and *)
(* final channels, an empty body, a blank, text, start and end markers, so *)
(* that a window holds several bodies of one channel.                      *)

W_finF  == CHANNEL_MARK \o S_final \o MESSAGE_MARK \o <<"F">>
W_finG  == CHANNEL_MARK \o S_final \o MESSAGE_MARK \o <<" ", "G">>
W_blank == <<" ">>

WindowChunks ==
  {K_start, K_end, K_analysisA, K_finalHead, W_finF, W_finG, W_blank, K_x}

WindowNext == (\E content \in WindowChunks : AddContent(content)) \/ Reset

WindowSpec == Init /\ [][WindowNext]_vars

---------------------------------------------------------------------------
(* Render followed by strict parse, on conversations drawn from a bounded  *)
(* set: two roles, text chunks (one with ':' in its text, one empty), and  *)
(* tool calls (one with ':' in its namespace, one with ':' in its name).   *)

S_ab == <<"a", ":", "b">>

RtRoles == {R_user, R_assistant}

RtChunks ==
  {TextChunk(C_message, S_Hi),
   TextChunk(C_tool, S_ab),
   TextChunk(C_error, <<>>),
   ToolChunk(S_math, S_add, JObj(<<JItem(<<"a">>, JNum(1))>>)),
   ToolChunk(S_ab, S_add, JNull),
   ToolChunk(S_math, S_ab, JArr(<<JItem(<<>>, JStr(S_Hi)), JItem(<<>>, JTrue)>>))}

SeqsUpTo(S, n) == UNION {[1..k -> S] : k \in 0..n}

RtMessages == {HarmonyMessage(r, c) : r \in RtRoles, c \in SeqsUpTo(RtChunks, MaxContent)}

RtConversations == {[messages |-> m] : m \in SeqsUpTo(RtMessages, MaxMessages)}

RoundTripInit ==
  /\ ParserInit
  /\ StreamIdle
  /\ ParseIdle
  /\ TokIdle
  /\ ExtractIdle
  /\ EncodingIdle
  /\ rtConv \in RtConversations
  /\ rtTokens = <<>>
  /\ rtOut = NoOutcome
  /\ rtPc = "idle"
  /\ rtString = <<>>
  /\ rtOutString = NoOutcome

Render ==
  /\ rtPc = "idle"
  /\ rtTokens' = renderConversation(rtConv, DEFAULT_DELIMS)
  /\ rtPc' = "rendered"
  /\ UNCHANGED <<rtConv, rtOut, rtString, rtOutString, parserVars, streamVars,
                 ptVars, tkVars, exVars, encVars>>

Parse ==
  /\ rtPc = "rendered"
  /\ rtOut' = parseTokens(rtTokens, DEFAULT_DELIMS)
  /\ rtPc' = "done"
  /\ UNCHANGED <<rtConv, rtTokens, rtString, rtOutString, parserVars, streamVars,
                 ptVars, tkVars, exVars, encVars>>

\* renderConversation(c).join("")
Join ==
  /\ rtPc = "done"
  /\ rtString' = Concat(rtTokens)
  /\ rtPc' = "joined"
  /\ UNCHANGED <<rtConv, rtTokens, rtOut, rtOutString, parserVars, streamVars,
                 ptVars, tkVars, exVars, encVars>>

ParseString ==
  /\ rtPc = "joined"
  /\ rtOutString' = parseConversationFromString(rtString, DEFAULT_DELIMS)
  /\ rtPc' = "reparsed"
  /\ UNCHANGED <<rtConv, rtTokens, rtOut, rtString, parserVars, streamVars,
                 ptVars, tkVars, exVars, encVars>>

RoundTripNext == Render \/ Parse \/ Join \/ ParseString

RoundTripSpec == RoundTripInit /\ [][RoundTripNext]_vars

---------------------------------------------------------------------------
(* parseConversationFromString on streaming-style strings: up to           *)
(* MaxStreamMessages messages, each a start marker with a role, up to      *)
(* MaxGroups groups of channel declaration, message marker and body, and   *)
(* the end marker.  The bodies hold no marker.                             *)

StreamBodies == {S_Hi, <<>>, TEXT_PREFIX \o S_Hi, TOOL_PREFIX \o S_add}

StreamGroups == {CHANNEL_MARK \o S_final \o MESSAGE_MARK \o body : body \in StreamBodies}

StreamMessages ==
  {START_MARK \o role \o Concat(groups) \o END_MARK :
     role \in RtRoles, groups \in SeqsUpTo(StreamGroups, MaxGroups) \ {<<>>}}

StreamStrings == {Concat(m) : m \in SeqsUpTo(StreamMessages, MaxStreamMessages)}

StreamStringInit ==
  /\ ParserInit
  /\ StreamIdle
  /\ ParseIdle
  /\ TokIdle
  /\ ExtractIdle
  /\ EncodingIdle
  /\ rtConv = [messages |-> <<>>]
  /\ rtTokens = <<>>
  /\ rtOut = NoOutcome
  /\ rtPc = "joined"
  /\ rtString \in StreamStrings
  /\ rtOutString = NoOutcome

StreamStringSpec == StreamStringInit /\ [][ParseString]_vars

---------------------------------------------------------------------------
(* parseTokens as a process: a new parser, one push per token in order, then *)
(* finish; a push that throws ends the call.  tryParseTokens is then called  *)
(* on the same arguments.  The tokens are drawn from a pool that holds a     *)
(* token for each error of push, under the default delimiters or under       *)
(* single-character ones.                                                    *)

ALT_DELIMS == [start |-> <<"[">>, message |-> <<"|">>, end |-> <<"]">>]

PtPool(delims) ==
  IF delims = DEFAULT_DELIMS
  THEN {T_startUser, T_startBad, T_chanFinal, MESSAGE_MARK, END_MARK, T_textHi,
        T_textNoSep, T_textBadCh, T_toolOk, T_toolOneSep, T_toolBadArg, T_raw}
  ELSE {delims.start \o R_user, delims.message, delims.end, T_startUser,
        T_chanFinal, T_textHi}

ParseInit ==
  /\ ParserInit
  /\ StreamIdle
  /\ RoundTripIdle
  /\ TokIdle
  /\ ExtractIdle
  /\ EncodingIdle
  /\ ptDelims \in {DEFAULT_DELIMS, ALT_DELIMS}
  /\ ptTokens \in SeqsUpTo(PtPool(ptDelims), MaxTokens)
  /\ ptPc = "loop"
  /\ ptOut = NoOutcome
  /\ ptTry = <<>>

\* parser.push(t, delimiters) for the next token of the list
ParseLoop ==
  /\ ptPc = "loop"
  /\ nPush < Len(ptTokens)
  /\ PushCall(ptTokens[nPush + 1], ptDelims)
  /\ IF last'.error.code # ""
     THEN /\ ptPc' = "thrown"
          /\ ptOut' = [ok |-> FALSE, value |-> [messages |-> <<>>],
                       error |-> last'.error]
     ELSE UNCHANGED <<ptPc, ptOut>>
  /\ UNCHANGED <<ptTokens, ptDelims, ptTry, streamVars, rtVars, tkVars, exVars, encVars>>

\* return parser.finish()
ParseReturn ==
  /\ ptPc = "loop"
  /\ nPush = Len(ptTokens)
  /\ FinishCall
  /\ ptPc' = "returned"
  /\ ptOut' = [ok |-> TRUE, value |-> [messages |-> state'.messages], error |-> NoError]
  /\ UNCHANGED <<ptTokens, ptDelims, ptTry, streamVars, rtVars, tkVars, exVars, encVars>>

TryParse ==
  /\ ptPc \in {"returned", "thrown"}
  /\ ptTry = <<>>
  /\ ptTry' = <<tryParseTokens(ptTokens, ptDelims)>>
  /\ UNCHANGED <<ptTokens, ptDelims, ptPc, ptOut, parserVars, streamVars, rtVars,
                 tkVars, exVars, encVars>>

ParseNext == ParseLoop \/ ParseReturn \/ TryParse

ParseSpec == ParseInit /\ [][ParseNext]_vars

---------------------------------------------------------------------------
(* parseTokens on streaming-style token lists of up to MaxFrameTokens      *)
(* tokens with the default delimiters: start and end tokens, channel       *)
(* declarations with and without a name, the message marker, a text        *)
(* payload and a raw payload.                                              *)

FramePool == {T_startUser, T_chanFinal, T_chanEmpty, MESSAGE_MARK, END_MARK, T_textHi, T_raw}

FrameInit ==
  /\ ParserInit
  /\ StreamIdle
  /\ RoundTripIdle
  /\ TokIdle
  /\ ExtractIdle
  /\ EncodingIdle
  /\ ptDelims = DEFAULT_DELIMS
  /\ ptTokens \in SeqsUpTo(FramePool, MaxFrameTokens)
  /\ ptPc = "loop"
  /\ ptOut = NoOutcome
  /\ ptTry = <<>>

FrameSpec == FrameInit /\ [][ParseNext]_vars

---------------------------------------------------------------------------
(* tokenizeCompletionString as a process, one loop iteration per step, and  *)
(* isHarmonyFormat called once it has returned.  The input is a             *)
(* concatenation of pieces: the three default markers, a channel            *)
(* declaration, lowercase letters, other text, and the single-character     *)
(* markers of ALT_DELIMS.  NOSTART_DELIMS has the empty string as its start *)
(* marker.  In an iteration that does not advance i the token list, which   *)
(* would grow forever, is kept to MaxTokensOut tokens.                      *)

NOSTART_DELIMS == [start |-> <<>>, message |-> <<"|">>, end |-> <<"]">>]

TkDelimSets == {DEFAULT_DELIMS, ALT_DELIMS, NOSTART_DELIMS}

S_HiSpace == <<"H", "i", " ">>
S_bracketed == <<"[", "b", "]">>

TkPieces ==
  {START_MARK, MESSAGE_MARK, END_MARK, T_chanFinal, R_user, S_HiSpace, S_bracketed}

TkInputs == {Concat(p) : p \in SeqsUpTo(TkPieces, MaxPieces)}

TokInit ==
  /\ ParserInit
  /\ StreamIdle
  /\ RoundTripIdle
  /\ ParseIdle
  /\ ExtractIdle
  /\ EncodingIdle
  /\ tkInput \in TkInputs
  /\ tkDelims \in TkDelimSets
  /\ tkI = 0
  /\ tkTokens = <<>>
  /\ tkPc = "loop"
  /\ tkIter = 0
  /\ tkFormat = <<>>

\* one iteration of while (i < input.length)
TokIterate ==
  /\ tkPc = "loop"
  /\ tkI < Len(tkInput)
  /\ LET r == TokStep(tkInput, tkI, tkDelims)
     IN /\ tkI' = r.i
        /\ tkTokens' = IF r.i = tkI /\ Len(tkTokens) >= MaxTokensOut
                        THEN tkTokens
                        ELSE tkTokens \o r.push
  /\ tkIter' = 1 - tkIter
  /\ UNCHANGED <<tkInput, tkDelims, tkPc, tkFormat, parserVars, streamVars, rtVars,
                 ptVars, exVars, encVars>>

\* the loop condition fails: return tokens
TokReturn ==
  /\ tkPc = "loop"
  /\ tkI >= Len(tkInput)
  /\ tkPc' = "returned"
  /\ UNCHANGED <<tkInput, tkDelims, tkI, tkTokens, tkIter, tkFormat, parserVars,
                 streamVars, rtVars, ptVars, exVars, encVars>>

\* isHarmonyFormat(input, delims), input being the string or not a string
Detect ==
  /\ tkPc = "returned"
  /\ tkFormat = <<>>
  /\ \E input \in {JsString(tkInput), JsUndefined, JsNull, JsNumber} :
       tkFormat' = <<[input |-> input, result |-> isHarmonyFormat(input, tkDelims)]>>
  /\ UNCHANGED <<tkInput, tkDelims, tkI, tkTokens, tkPc, tkIter, parserVars,
                 streamVars, rtVars, ptVars, exVars, encVars>>

TokNext == TokIterate \/ TokReturn \/ Detect

TokSpec == TokInit /\ [][TokNext]_vars /\ WF_vars(TokIterate) /\ WF_vars(TokReturn)

---------------------------------------------------------------------------
(* The one-shot extract helpers on one input string: each helper is       *)
(* applied to the input drawn.  Inputs are concatenations of up to         *)
(* MaxExPieces pieces: the start, end and message markers, message heads   *)
(* of the three channels with and without a body, a final head cut in the  *)
(* middle of the marker that follows it, the rest of that marker, and text *)
(* with a leading blank.                                                   *)

X_commentaryC == CHANNEL_MARK \o S_commentary \o MESSAGE_MARK \o <<"C">>
X_finMes == K_finalHead \o <<"<", "|", "m", "e", "s">>
X_sage == <<"s", "a", "g", "e", "|", ">">>
X_x == <<" ", "x">>

ExPieces ==
  {K_start, K_end, MESSAGE_MARK, K_finalHead, W_finF, X_finMes, X_sage, K_analysisA,
   X_commentaryC, X_x}

ExInputs == {Concat(p) : p \in SeqsUpTo(ExPieces, MaxExPieces)}

ExtractInit ==
  /\ ParserInit
  /\ StreamIdle
  /\ RoundTripIdle
  /\ ParseIdle
  /\ TokIdle
  /\ EncodingIdle
  /\ exInput \in ExInputs
  /\ exCall = NoExtract

ExtractReasoning ==
  /\ exCall = NoExtract
  /\ exCall' = [fn |-> "extractReasoningContent", out |-> extractReasoningContent(exInput)]
  /\ UNCHANGED <<exInput, parserVars, streamVars, rtVars, ptVars, tkVars, encVars>>

ExtractFinal ==
  /\ exCall = NoExtract
  /\ exCall' = [fn |-> "extractFinalContent", out |-> extractFinalContent(exInput)]
  /\ UNCHANGED <<exInput, parserVars, streamVars, rtVars, ptVars, tkVars, encVars>>

ExtractCommentary ==
  /\ exCall = NoExtract
  /\ exCall' = [fn |-> "extractCommentaryContent",
                out |-> extractCommentaryContent(exInput)]
  /\ UNCHANGED <<exInput, parserVars, streamVars, rtVars, ptVars, tkVars, encVars>>

ExtractNext == ExtractReasoning \/ ExtractFinal \/ ExtractCommentary

ExtractSpec == ExtractInit /\ [][ExtractNext]_vars

---------------------------------------------------------------------------
(* The encoding registry: loadHarmonyEncoding with any name, then a call   *)
(* of a function of the object it returned, with any role argument         *)
(* (<<>>: the argument is left out).  The object keeps no state, so one    *)
(* call is made on each object loaded.                                     *)

EncNames == {HARMONY_GPT_OSS, "harmony_gpt_oss", "O200K_HARMONY", ""}

EncRoles == {<<>>, R_user, R_assistant, <<"b", "o", "t">>}

EncMessages == {HarmonyMessage(r, c) : r \in RtRoles, c \in SeqsUpTo(RtChunks, 1)}

EncConversations == {[messages |-> m] : m \in SeqsUpTo(EncMessages, MaxEncMessages)}

EncTokens == {T_startUser, T_startBad, MESSAGE_MARK, END_MARK, T_textHi, T_toolBadArg}

EncTokenLists == SeqsUpTo(EncTokens, MaxEncTokens)

\* loadHarmonyEncoding(name)
Load(name) ==
  /\ encoding' = [status |-> IF loadHarmonyEncoding(name) = NoError THEN "loaded"
                             ELSE "threw",
                  name |-> name, error |-> loadHarmonyEncoding(name)]
  /\ encCall' = NoEncCall
  /\ UNCHANGED <<parserVars, streamVars, rtVars, ptVars, tkVars, exVars>>

\* encoding.renderConversationForCompletion(conversation, role)
EncRender ==
  /\ encoding.status = "loaded"
  /\ encCall = NoEncCall
  /\ \E conversation \in EncConversations, role \in EncRoles :
       encCall' = [NoEncCall EXCEPT !.fn = "renderConversationForCompletion",
                                    !.conversation = conversation, !.role = role,
                                    !.rendered =
                                      renderConversationForCompletion(conversation, role)]
  /\ UNCHANGED <<encoding, parserVars, streamVars, rtVars, ptVars, tkVars, exVars>>

\* encoding.parseMessagesFromCompletionTokens(tokens, role)
EncParse ==
  /\ encoding.status = "loaded"
  /\ encCall = NoEncCall
  /\ \E tokens \in EncTokenLists, role \in EncRoles :
       encCall' = [NoEncCall EXCEPT !.fn = "parseMessagesFromCompletionTokens",
                                    !.tokens = tokens, !.role = role,
                                    !.parsed =
                                      parseMessagesFromCompletionTokens(tokens, role)]
  /\ UNCHANGED <<encoding, parserVars, streamVars, rtVars, ptVars, tkVars, exVars>>

EncodingNext == (\E name \in EncNames : Load(name)) \/ EncRender \/ EncParse

EncodingSpec == Init /\ [][EncodingNext]_vars

---------------------------------------------------------------------------
(* Properties of the strict parser.  They are stated on the last call:     *)
(* last.pre is the parser state before it, state the state after it.       *)

IsStartToken(t) == StartsWith(t, START_MARK)
IsChannelToken(t) == StartsWith(t, CHANNEL_MARK)
IsPayloadToken(t) ==
  ~IsStartToken(t) /\ ~IsChannelToken(t) /\ t # MESSAGE_MARK /\ t # END_MARK
IsTextToken(t) == IsPayloadToken(t) /\ StartsWith(t, TEXT_PREFIX)
IsToolToken(t) == IsPayloadToken(t) /\ StartsWith(t, TOOL_PREFIX)
IsRawToken(t) == IsPayloadToken(t) /\ ~IsTextToken(t) /\ ~IsToolToken(t)
Roles(messages) == [i \in 1..Len(messages) |-> messages[i].role]
ColonsIn(s) == {k \in 1..Len(s) : s[k] = ":"}

\* C5 as stated: with no message open, every token that is neither a start
\* token nor the end marker raises ContentOutsideMessage, channel-declaration
\* tokens and the message marker included.
C5_Original ==
  (last.op = "push" /\ last.pre.current = <<>>
     /\ ~IsStartToken(last.token) /\ last.token # END_MARK)
    => last.error.code = "UNEXPECTED_TOKEN"

\* C5 amended: with no message open, every payload token (text:, tool: or any
\* other, well formed or not) raises ContentOutsideMessage, carries the token
\* and leaves the parser as it was; a channel-declaration token and the
\* message marker are accepted without error and open no message.
C5_ContentOutsideMessage ==
  (last.op = "push" /\ last.pre.current = <<>>) =>
    /\ IsPayloadToken(last.token) =>
          /\ last.error.code = "UNEXPECTED_TOKEN"
          /\ last.error.token = last.token
          /\ state = last.pre
    /\ (~IsStartToken(last.token)
          /\ (IsChannelToken(last.token) \/ last.token = MESSAGE_MARK)) =>
          /\ last.error.code = ""
          /\ state.current = <<>>
          /\ state.messages = last.pre.messages

\* C5 witness: a malformed tool: token pushed after a message was closed
C5_Witness ==
  /\ last.op = "push"
  /\ last.pre.current = <<>>
  /\ last.pre.messages # <<>>
  /\ last.token = T_toolBadArg
  /\ last.error.code = "UNEXPECTED_TOKEN"

C7_EachMessageAppendedOnce ==
  /\ Len(state.current) <= 1
  /\ Roles(state.messages \o state.current) = accepted
  /\ last.op \in {"push", "finish"} =>
        state.messages =
          IF last.pre.current # <<>> /\ last.ret \in {"start", "end", "finish"}
          THEN Append(last.pre.messages, last.pre.current[1])
          ELSE last.pre.messages
  /\ (last.op = "push" /\ last.token = END_MARK /\ last.pre.current = <<>>) =>
        /\ last.error.code = ""
        /\ state.messages = last.pre.messages
        /\ state.current = <<>>
  /\ last.op = "finish" =>
        /\ state.current = <<>>
        /\ Len(state.messages) = Len(accepted)

\* C7 witness: finish() closes the second message, the first having been
\* closed by the start token of the second
C7_Witness ==
  /\ last.op = "finish"
  /\ last.pre.current # <<>>
  /\ Len(last.pre.messages) = 1
  /\ Roles(state.messages) = <<R_user, R_tool>>

\* C8: a start token whose suffix is not a role raises InvalidRole naming the
\* suffix and leaves the parser (the open message too) as it was; a start
\* token with a role opens a message with that role and no content.
C8_StartToken ==
  (last.op = "push" /\ IsStartToken(last.token)) =>
    LET suffix == SubSeq(last.token, Len(START_MARK) + 1, Len(last.token))
    IN IF suffix \in {R_system, R_developer, R_user, R_assistant, R_tool}
       THEN /\ last.error.code = ""
            /\ state.current = <<[role |-> suffix, content |-> <<>>]>>
       ELSE /\ last.error.code = "INVALID_ROLE"
            /\ last.error.detail = suffix
            /\ last.error.token = last.token
            /\ state = last.pre

\* C8 witness: a start token with the empty suffix is rejected while a message
\* with content is open
C8_Witness ==
  /\ last.op = "push"
  /\ last.token = T_startEmpty
  /\ last.error.code = "INVALID_ROLE"
  /\ last.pre.current # <<>>
  /\ last.pre.current[1].content # <<>>
  /\ state.current = last.pre.current

\* C9: a text: token pushed while a message is open raises MissingChannel when
\* no ':' follows the prefix; otherwise the channel is what stands before the
\* first ':' and the text all that follows it; a channel outside the five
\* raises InvalidChannel; otherwise one text chunk with that channel and text
\* is appended at the end of the open message's content.
C9_TextToken ==
  (last.op = "push" /\ last.pre.current # <<>> /\ IsTextToken(last.token)) =>
    LET after == SubSeq(last.token, Len(TEXT_PREFIX) + 1, Len(last.token))
        k == Min(ColonsIn(after))
        channel == SubSeq(after, 1, k - 1)
        text == SubSeq(after, k + 1, Len(after))
        open == last.pre.current[1]
    IN IF ColonsIn(after) = {}
       THEN last.error.code = "INVALID_TEXT" /\ state = last.pre
       ELSE IF channel \notin {C_message, C_reasoning, C_tool, C_function, C_error}
       THEN /\ last.error.code = "INVALID_CHANNEL"
            /\ last.error.detail = channel
            /\ state = last.pre
       ELSE /\ last.error.code = ""
            /\ state.messages = last.pre.messages
            /\ state.current =
                 <<[role |-> open.role,
                    content |-> Append(open.content, TextChunk(channel, text))]>>

\* C9 witness: text:reasoning:a:b appended after an earlier chunk, with the
\* text a:b
C9_Witness ==
  /\ last.op = "push"
  /\ last.token = T_textColons
  /\ last.ret = "text"
  /\ Len(state.current[1].content) = 2
  /\ state.current[1].content[2] = TextChunk(C_reasoning, <<"a", ":", "b">>)

\* C10: a tool: token pushed while a message is open raises MalformedTool when
\* fewer than two ':' follow the prefix; otherwise the namespace stands before
\* the first ':', the name between the first and the second, and the rest is
\* the argument segment; a segment that is not JSON raises InvalidToolArgs;
\* otherwise one tool_call chunk with channel "tool" and the decoded arguments
\* is appended at the end of the open message's content.
C10_ToolToken ==
  (last.op = "push" /\ last.pre.current # <<>> /\ IsToolToken(last.token)) =>
    LET rest == SubSeq(last.token, Len(TOOL_PREFIX) + 1, Len(last.token))
        k1 == Min(ColonsIn(rest))
        k2 == Min(ColonsIn(rest) \ {k1})
        segment == SubSeq(rest, k2 + 1, Len(rest))
        open == last.pre.current[1]
        chunk == [type |-> "tool_call", channel |-> C_tool, text |-> <<>>,
                  call |-> [namespace |-> SubSeq(rest, 1, k1 - 1),
                            name |-> SubSeq(rest, k1 + 1, k2 - 1),
                            arguments |-> JSONParse(segment).v]]
    IN IF Cardinality(ColonsIn(rest)) < 2
       THEN last.error.code = "INVALID_TOOL" /\ state = last.pre
       ELSE IF ~JSONParse(segment).ok
       THEN /\ last.error.code = "INVALID_TOOL_ARGS"
            /\ last.error.detail = segment
            /\ state = last.pre
       ELSE /\ last.error.code = ""
            /\ state.messages = last.pre.messages
            /\ state.current =
                 <<[role |-> open.role, content |-> Append(open.content, chunk)]>>

\* C10 witness: tool:math:add:{"a":1} appended after an earlier chunk, its
\* arguments decoded to the object with member a = 1
C10_Witness ==
  /\ last.op = "push"
  /\ last.token = T_toolOk
  /\ last.ret = "tool"
  /\ Len(state.current[1].content) = 2
  /\ state.current[1].content[2].call =
       [namespace |-> S_math, name |-> S_add,
        arguments |-> JObj(<<JItem(<<"a">>, JNum(1))>>)]

\* C11: a push that raises leaves the parser state (messages, open message,
\* expecting-payload flag, recorded channel) as it was; the same token pushed
\* again raises the same kind; every token pushed next does what it would
\* have done had the failed push not been made.
C11_FailedPushChangesNothing ==
  (last.op = "push" /\ last.error.code # "") =>
    /\ state.messages = last.pre.messages
    /\ state.current = last.pre.current
    /\ state.expectingPayload = last.pre.expectingPayload
    /\ state.lastStreamingChannel = last.pre.lastStreamingChannel
    /\ PushOp(state, last.token, DEFAULT_DELIMS).error.code = last.error.code
    /\ \A t \in Tokens :
         PushOp(state, t, DEFAULT_DELIMS) = PushOp(last.pre, t, DEFAULT_DELIMS)

\* C11 witness: a tool: token with undecodable arguments is rejected while a
\* message is open, a channel is recorded and a payload is expected
C11_Witness ==
  /\ last.op = "push"
  /\ last.error.code = "INVALID_TOOL_ARGS"
  /\ state.current # <<>>
  /\ state.expectingPayload
  /\ state.lastStreamingChannel = <<S_final>>

\* C14: in the conversation held by the parser (the one finish() returns),
\* the open message included, every role is one of the five roles, every text
\* chunk's channel one of the five channels and every tool_call chunk's
\* channel "tool".
C14_ConversationWellFormed ==
  \A m \in {(state.messages \o state.current)[i] :
               i \in 1..Len(state.messages \o state.current)} :
    /\ m.role \in {R_system, R_developer, R_user, R_assistant, R_tool}
    /\ \A k \in 1..Len(m.content) :
         \/ /\ m.content[k].type = "text"
            /\ m.content[k].channel \in
                 {C_message, C_reasoning, C_tool, C_function, C_error}
         \/ /\ m.content[k].type = "tool_call"
            /\ m.content[k].channel = C_tool

\* C14 witness: finish() returns a message whose text chunk was pushed after
\* a declaration of the channel "final", which is none of the five
C14_Witness ==
  /\ last.op = "finish"
  /\ last.preHist.chanSince
  /\ state.messages = <<[role |-> R_user, content |-> <<TextChunk(C_message, S_Hi)>>]>>

---------------------------------------------------------------------------
(* Properties of parseTokens and tryParseTokens *)

\* C12: when parseTokens returns a conversation, tryParseTokens returns ok
\* with that conversation; when parseTokens raises, tryParseTokens returns
\* not ok with an error of the same kind and details; tryParseTokens returns
\* in both cases.
C12_TryParseEquivalent ==
  (ptPc \in {"returned", "thrown"} /\ ptTry # <<>>) =>
    /\ ptPc = "returned" =>
         /\ ptTry[1].ok
         /\ ptTry[1].value = ptOut.value
    /\ ptPc = "thrown" =>
         /\ ~ptTry[1].ok
         /\ ptTry[1].error.code = ptOut.error.code
         /\ ptTry[1].error.token = ptOut.error.token
         /\ ptTry[1].error.detail = ptOut.error.detail

\* C12 witness: the third token raises InvalidChannel and tryParseTokens
\* returns that error, channel name included
C12_Witness ==
  /\ ptPc = "thrown"
  /\ Len(ptTokens) = 3
  /\ ptOut.error.code = "INVALID_CHANNEL"
  /\ ptTry # <<>>
  /\ ptTry[1].error.code = "INVALID_CHANNEL"
  /\ ptTry[1].error.detail = S_final

\* C13: a push of parseTokens that raises carries the pushed token, and its
\* kind is the one of its trigger: InvalidRole for a start token, and for the
\* others ContentOutsideMessage when no message is open, MissingChannel or
\* InvalidChannel for a text: token, MalformedTool or InvalidToolArgs for a
\* tool: token, UnknownTokenPrefix for any other; the seven kinds differ;
\* parseTokens then ends at that token with the error and no conversation.
C13_ErrorKinds ==
  (last.op = "push" /\ last.error.code # "") =>
    LET t == last.token
        open == last.pre.current # <<>>
        colons(x) == Cardinality({k \in 1..Len(x) : x[k] = ":"})
        kind ==
          IF StartsWith(t, ptDelims.start) THEN "INVALID_ROLE"
          ELSE IF ~open THEN "UNEXPECTED_TOKEN"
          ELSE IF StartsWith(t, TEXT_PREFIX)
          THEN IF colons(t) < 2 THEN "INVALID_TEXT" ELSE "INVALID_CHANNEL"
          ELSE IF StartsWith(t, TOOL_PREFIX)
          THEN IF colons(t) < 3 THEN "INVALID_TOOL" ELSE "INVALID_TOOL_ARGS"
          ELSE "UNKNOWN_TOKEN"
    IN /\ last.error.code = kind
       /\ last.error.token = t
       /\ Cardinality({"INVALID_ROLE", "UNEXPECTED_TOKEN", "INVALID_TEXT",
                       "INVALID_CHANNEL", "INVALID_TOOL", "INVALID_TOOL_ARGS",
                       "UNKNOWN_TOKEN"}) = 7
       /\ t = ptTokens[nPush]
       /\ ptPc = "thrown"
       /\ ~ptOut.ok
       /\ ptOut.error = last.error

\* C13 witness: the second of three tokens raises UnknownTokenPrefix while a
\* message is open; parseTokens stops there and returns nothing
C13_Witness ==
  /\ ptPc = "thrown"
  /\ Len(ptTokens) = 3
  /\ nPush = 2
  /\ state.current # <<>>
  /\ ptOut.error.code = "UNKNOWN_TOKEN"
  /\ ptOut.error.token = ptTokens[2]

---------------------------------------------------------------------------
(* Properties of tokenizeCompletionString and isHarmonyFormat *)

\* C15: for every input string and every set of three mutually distinct
\* delimiter strings, tokenizeCompletionString returns: its loop ends.
C15_TokenizerTerminates == <>(tkPc = "returned")

\* C16: with three non-empty markers, the tokens returned are consecutive
\* spans of the input; a span that begins with the start marker is the marker
\* and the maximal run of a-z after it; one that begins with the message or
\* the end marker is that marker alone; any other is a payload: non-empty,
\* no marker begins inside it, and it ends where a marker begins or at the end
\* of the input, so that a channel declaration lies inside a payload.
C16_TokenShape ==
  (/\ tkPc = "returned"
   /\ tkDelims.start # <<>>
   /\ tkDelims.message # <<>>
   /\ tkDelims.end # <<>>) =>
    LET markers == {tkDelims.start, tkDelims.message, tkDelims.end}
        markerAt(p) == \E m \in markers : StartsWithAt(tkInput, m, p)
        off(k) == Len(Concat(SubSeq(tkTokens, 1, k - 1)))
        span(k) == Slice(tkInput, off(k), off(k) + Len(tkTokens[k]))
        isPayload(k) == ~markerAt(off(k))
    IN /\ Concat(tkTokens) = tkInput
       /\ \A k \in 1..Len(tkTokens) :
            /\ tkTokens[k] = span(k)
            /\ StartsWithAt(tkInput, tkDelims.start, off(k)) =>
                 /\ StartsWith(tkTokens[k], tkDelims.start)
                 /\ \A q \in (Len(tkDelims.start) + 1)..Len(tkTokens[k]) :
                      tkTokens[k][q] \in LowerCase
                 /\ off(k + 1) < Len(tkInput) =>
                      tkInput[off(k + 1) + 1] \notin LowerCase
            /\ (/\ ~StartsWithAt(tkInput, tkDelims.start, off(k))
                /\ StartsWithAt(tkInput, tkDelims.message, off(k))) =>
                 tkTokens[k] = tkDelims.message
            /\ (/\ ~StartsWithAt(tkInput, tkDelims.start, off(k))
                /\ ~StartsWithAt(tkInput, tkDelims.message, off(k))
                /\ StartsWithAt(tkInput, tkDelims.end, off(k))) =>
                 tkTokens[k] = tkDelims.end
            /\ isPayload(k) =>
                 /\ tkTokens[k] # <<>>
                 /\ \A p \in off(k)..(off(k + 1) - 1) : ~markerAt(p)
                 /\ \A m \in markers : ~Includes(tkTokens[k], m)
                 /\ off(k + 1) = Len(tkInput) \/ markerAt(off(k + 1))
       /\ \A p \in Occurrences(tkInput, CHANNEL_MARK) :
            (\A m \in markers : ~Includes(CHANNEL_MARK, m)) =>
              \E k \in 1..Len(tkTokens) :
                /\ off(k) <= p
                /\ p + Len(CHANNEL_MARK) <= off(k + 1)
                /\ ~(\E m \in {tkDelims.message, tkDelims.end} : tkTokens[k] = m)

\* C16 witness: "<|start|>user<|channel|>final" under the default markers
\* gives the start token with its role and one payload token holding the
\* channel declaration
C16_Witness ==
  /\ tkPc = "returned"
  /\ tkDelims = DEFAULT_DELIMS
  /\ tkInput = START_MARK \o R_user \o T_chanFinal
  /\ tkTokens = <<START_MARK \o R_user, T_chanFinal>>

\* C18: isHarmonyFormat returns TRUE exactly for a non-empty string that
\* contains "<|channel|>" and contains the message marker or the end marker
\* of the delimiter set; for undefined, null, a number and the empty string
\* it returns FALSE.
C18_IsHarmonyFormat ==
  tkFormat # <<>> =>
    tkFormat[1].result =
      (/\ tkFormat[1].input.type = "string"
       /\ tkFormat[1].input.s # <<>>
       /\ Occurrences(tkFormat[1].input.s, CHANNEL_MARK) # {}
       /\ \/ Occurrences(tkFormat[1].input.s, tkDelims.message) # {}
          \/ Occurrences(tkFormat[1].input.s, tkDelims.end) # {})

\* C18 witness: a string with the start marker and the message marker but no
\* channel declaration is not taken for Harmony format
C18_Witness ==
  /\ tkFormat # <<>>
  /\ tkDelims = DEFAULT_DELIMS
  /\ tkFormat[1].input = JsString(START_MARK \o R_user \o MESSAGE_MARK)
  /\ ~tkFormat[1].result

---------------------------------------------------------------------------
(* Properties of render followed by parse *)

\* C1: parseTokens(renderConversation(c)) returns c, for every conversation c
\* of supported roles and channels, any text, any namespace and name, and
\* arguments that JSON carries unchanged.
C1_RoundTrip ==
  rtPc = "done" => (rtOut.ok /\ rtOut.value = rtConv)

\* C17: parseConversationFromString(renderConversation(c).join("")) returns
\* c, for every conversation c whose texts, namespaces, names and encoded
\* arguments contain none of the three default markers.
C17_StringRoundTrip ==
  rtPc = "reparsed" => (rtOutString.ok /\ rtOutString.value = rtConv)

---------------------------------------------------------------------------
(* Properties of the streaming extractor *)

\* C2: no addContent call raises; each returns a snapshot.
C2_NeverFails ==
  nAdd > 0 => (~threw /\ snap.kind = "snapshot")

\* C3: after any addContent calls since construction or reset, the buffer and
\* the bufferContent of the latest snapshot are the chunks added, concatenated
\* in order.
C3_BufferAccumulation ==
  nAdd > 0 =>
    /\ buffer = Concat(added)
    /\ snap.kind = "snapshot"
    /\ snap.bufferContent = Concat(added)

\* C4: what the last addContent did (the snapshot it returned, field by field)
\* is what a new extractor does when it is given the concatenation of the
\* chunks as a single chunk.
C4_ChunkingIndependent ==
  nAdd > 0 =>
    LET whole == parseCurrentBuffer(Concat(added), <<>>)
    IN /\ threw = whole.threw
       /\ ~threw => snap = whole.result

\* C4 witness: the channel name and the message marker are both split between
\* chunks, and the snapshot has the final text
C4_Witness ==
  /\ added = <<K_chanFin, K_alMess, K_ageHi>>
  /\ ~threw
  /\ snap.lastChannelDetected = <<S_final>>
  /\ snap.currentFinal = S_Hi

\* C19: the isComplete of the snapshot an addContent call returns is TRUE
\* exactly when the buffer holds as many start markers as end markers and at
\* least one, wherever they stand.
C19_IsComplete ==
  (nAdd > 0 /\ ~threw) =>
    LET starts == {i \in 1..Len(buffer) :
                     /\ i + Len(START_MARK) - 1 <= Len(buffer)
                     /\ SubSeq(buffer, i, i + Len(START_MARK) - 1) = START_MARK}
        ends == {i \in 1..Len(buffer) :
                   /\ i + Len(END_MARK) - 1 <= Len(buffer)
                   /\ SubSeq(buffer, i, i + Len(END_MARK) - 1) = END_MARK}
    IN snap.isComplete = (Cardinality(starts) = Cardinality(ends) /\ starts # {})

\* C19 witness: a start marker, an end marker and a second start marker are
\* added; isComplete is FALSE, then TRUE, then FALSE again
C19_Witness ==
  /\ added = <<K_start, K_end, K_start>>
  /\ ~threw
  /\ ~snap.isComplete
  /\ outcomes = <<[threw |-> FALSE, isComplete |-> FALSE],
                  [threw |-> FALSE, isComplete |-> TRUE],
                  [threw |-> FALSE, isComplete |-> FALSE]>>

\* C20: after reset(), however many times in a row, the buffer is empty and
\* no channel is detected, as after construction, and addContent of any
\* chunk then does what it does on a new extractor.
C20_ResetIsInitial ==
  lastReset.n > 0 =>
    /\ buffer = <<>>
    /\ currentChannel = <<>>
    /\ \A c \in Chunks :
         addContent(buffer, currentChannel, c) = addContent(<<>>, <<>>, c)

\* C20 witness: reset() called twice in a row on an extractor that held a
\* buffer and a detected channel
C20_Witness ==
  /\ lastReset.n = 2
  /\ lastReset.hadBuffer
  /\ lastReset.hadChannel
  /\ buffer = <<>>

\* C21: the lastChannelDetected of the snapshot an addContent call returns
\* on a buffer with a structural marker is the name (the run of characters
\* other than "<" and white space) after the last channel marker of the
\* whole buffer that has such a name, whatever the name; a later channel
\* marker with no name after it does not change it; it is absent when no
\* channel marker of the buffer has a name.
C21_LastChannelDetected ==
  (/\ nAdd > 0
   /\ ~threw
   /\ \E m \in {START_MARK, CHANNEL_MARK, MESSAGE_MARK} : Occurrences(buffer, m) # {}) =>
    LET nameAt(p) ==
          LET from == p + Len(CHANNEL_MARK)
              stop == CHOOSE e \in from..Len(buffer) :
                        /\ \A q \in (from + 1)..e :
                             buffer[q] # "<" /\ buffer[q] \notin WhiteSpace
                        /\ e < Len(buffer) =>
                             buffer[e + 1] = "<" \/ buffer[e + 1] \in WhiteSpace
          IN SubSeq(buffer, from + 1, stop)
        named == {p \in Occurrences(buffer, CHANNEL_MARK) : nameAt(p) # <<>>}
    IN snap.lastChannelDetected =
         (IF named = {} THEN <<>>
          ELSE <<nameAt(CHOOSE p \in named : \A q \in named : q <= p)>>)

\* C21 witness: "<|channel|>fin", "al<|mess" and a channel marker with no name
\* after it are added; the channel detected is "final"
C21_Witness ==
  /\ added = <<K_chanFin, K_alMess, K_chanOnly>>
  /\ ~threw
  /\ snap.lastChannelDetected = <<S_final>>

\* C21 as stated: lastChannelDetected is the name after the most recent
\* channel marker of the buffer.
C21_Original ==
  (nAdd > 0 /\ ~threw /\ Occurrences(buffer, CHANNEL_MARK) # {}) =>
    LET p == CHOOSE p \in Occurrences(buffer, CHANNEL_MARK) :
               \A q \in Occurrences(buffer, CHANNEL_MARK) : q <= p
    IN snap.lastChannelDetected =
         (IF NameRun(buffer, p + Len(CHANNEL_MARK)) = <<>> THEN <<>>
          ELSE <<NameRun(buffer, p + Len(CHANNEL_MARK))>>)

\* C22: an addContent call made when the latest snapshot reports a detected
\* channel leaves a snapshot that reports one; only reset() makes it absent.
C22_DetectedPersists ==
  [][(snap.lastChannelDetected # <<>> /\ lastReset'.n = 0)
       => snap'.lastChannelDetected # <<>>]_vars

\* C22 witness: after "<|channel|>fin" a start marker and a channel marker
\* with no name are added; the third snapshot still reports "fin"
C22_Witness ==
  /\ added = <<K_chanFin, K_start, K_chanOnly>>
  /\ ~threw
  /\ snap.lastChannelDetected = <<<<"f", "i", "n">>>>

\* C23: on a buffer with no start, channel or message marker, end markers or
\* not, addContent returns currentFinal equal to the buffer as it is,
\* currentAnalysis and currentCommentary empty, isComplete FALSE and no
\* lastChannelDetected.
C23_UnframedBuffer ==
  (/\ nAdd > 0
   /\ \A m \in {START_MARK, CHANNEL_MARK, MESSAGE_MARK} : Occurrences(buffer, m) = {}) =>
    /\ ~threw
    /\ snap.kind = "snapshot"
    /\ snap.currentFinal = buffer
    /\ snap.currentAnalysis = <<>>
    /\ snap.currentCommentary = <<>>
    /\ ~snap.isComplete
    /\ snap.lastChannelDetected = <<>>

\* C23 witness: " <|", "x" and an end marker are added; currentFinal is
\* " <|x<|end|>", leading blank included
C23_Witness ==
  /\ added = <<K_partial, K_x, K_end>>
  /\ snap.currentFinal = <<" ", "<", "|", "x">> \o END_MARK
  /\ ~snap.isComplete

\* C27: in the snapshot an addContent call returns on a buffer with a
\* structural marker, none of the three channel texts contains a start,
\* message, end or channel marker, none ends with "<|" and letters, and none
\* begins or ends with white space.
C27_TextCleanup ==
  (/\ nAdd > 0
   /\ ~threw
   /\ \E m \in {START_MARK, CHANNEL_MARK, MESSAGE_MARK} : Occurrences(buffer, m) # {}) =>
    \A t \in {snap.currentAnalysis, snap.currentFinal, snap.currentCommentary} :
      /\ \A m \in {START_MARK, MESSAGE_MARK, END_MARK, CHANNEL_MARK} :
           Occurrences(t, m) = {}
      /\ ~\E p \in Occurrences(t, <<"<", "|">>) :
            \A q \in (p + 3)..Len(t) : t[q] \in LowerCase \cup UpperCase
      /\ t # <<>> => (t[1] \notin WhiteSpace /\ t[Len(t)] \notin WhiteSpace)

---------------------------------------------------------------------------
(* Properties of the message window of the streaming extractor *)

KnownChannels == {S_analysis, S_final, S_commentary}

\* the text a snapshot holds for a known channel
SnapText(sn, name) ==
  IF name = S_analysis THEN sn.currentAnalysis
  ELSE IF name = S_final THEN sn.currentFinal
  ELSE sn.currentCommentary

\* the part of buf from its last start marker (or its beginning) through the
\* first end marker from there on (or to its end)
WindowOf(buf) ==
  LET starts == Occurrences(buf, START_MARK)
      ws == IF starts = {} THEN 0 ELSE CHOOSE p \in starts : \A q \in starts : q <= p
      ends == {e \in Occurrences(buf, END_MARK) : e >= ws}
      we == IF ends = {} THEN Len(buf)
            ELSE (CHOOSE e \in ends : \A q \in ends : e <= q) + Len(END_MARK)
  IN SubSeq(buf, ws + 1, we)

\* the trimmed body of the declaration of name at index p of win: what follows
\* its message marker up to the next channel marker, end marker or end of win
BodyAt(win, name, p) ==
  LET b == p + Len(CHANNEL_MARK) + Len(name) + Len(MESSAGE_MARK)
      stops == {q \in b..(Len(win) - 1) :
                  \/ SubSeq(win, q + 1, Min({Len(win), q + Len(CHANNEL_MARK)})) = CHANNEL_MARK
                  \/ SubSeq(win, q + 1, Min({Len(win), q + Len(END_MARK)})) = END_MARK}
      e == IF stops = {} THEN Len(win) ELSE CHOOSE x \in stops : \A y \in stops : x <= y
  IN Trim(SubSeq(win, b + 1, e))

\* where the declarations of name with a non-empty body stand in win
BodyStarts(win, name) ==
  {p \in Occurrences(win, CHANNEL_MARK \o name \o MESSAGE_MARK) :
     BodyAt(win, name, p) # <<>>}

\* the non-empty bodies of name in win, in order
BodiesOf(win, name) ==
  [i \in 1..Cardinality(BodyStarts(win, name)) |->
     BodyAt(win, name,
            CHOOSE p \in BodyStarts(win, name) :
              Cardinality({q \in BodyStarts(win, name) : q < p}) = i - 1)]

\* C24: in the snapshot of a buffer with a structural marker, the three
\* channel texts are those computed from the message window alone (last start
\* marker through the first end marker after it) and the detected channel; a
\* text of one line is a part of the window.
C24_WindowScoping ==
  (nAdd > 0 /\ ~threw /\ hasHarmonyMarkers(buffer)) =>
    LET win == WindowOf(buffer)
        incomplete == extractIncompleteContentFromWindow(win)
        lastOnly == IF currentChannel = <<>> THEN <<>>
                    ELSE collectLastChannelText(win, currentChannel[1]).text
    IN \A name \in KnownChannels :
         /\ SnapText(snap, name) =
              WithLastOnly(
                WithIncomplete(collectChannelText(win, name), name, currentChannel,
                               incomplete),
                name, currentChannel, lastOnly)
         /\ (/\ SnapText(snap, name) # <<>>
             /\ Occurrences(SnapText(snap, name), NEWLINE) = {}) =>
              Occurrences(win, SnapText(snap, name)) # {}

\* C24 witness: a first message with final text F is ended and a second one
\* is started; the snapshot holds no final text
C24_Witness ==
  /\ added = <<W_finF, K_end, K_start>>
  /\ ~threw
  /\ snap.currentFinal = <<>>
  /\ snap.lastChannelDetected = <<S_final>>

\* C25: in the snapshot of a buffer with a structural marker, a known channel
\* other than the detected one has the non-empty trimmed bodies it has in the
\* window, in order, joined by line breaks; the detected channel, when it is
\* known and has a non-empty body in the window, has the last of them only.
C25_JoinedOrLast ==
  (nAdd > 0 /\ ~threw /\ hasHarmonyMarkers(buffer)) =>
    LET win == WindowOf(buffer)
    IN \A name \in KnownChannels :
         /\ currentChannel # <<name>> =>
              SnapText(snap, name) = JoinLines(BodiesOf(win, name))
         /\ (currentChannel = <<name>> /\ BodyStarts(win, name) # {}) =>
              SnapText(snap, name) =
                BodiesOf(win, name)[Cardinality(BodyStarts(win, name))]

\* C25 witness: analysis body "A ", then final bodies "F" and " G"; final is
\* the detected channel and its text is "G" alone, analysis keeps "A"
C25_Witness ==
  /\ added = <<K_analysisA, W_finF, W_finG>>
  /\ ~threw
  /\ snap.currentFinal = <<"G">>
  /\ snap.currentAnalysis = <<"A">>

\* an addContent step that appends text holding no marker while the window
\* has no end marker and its last channel marker declares name and is
\* directly followed by the message marker
LiveStep(name) ==
  /\ nAdd' = nAdd + 1
  /\ nAdd > 0
  /\ ~threw
  /\ \A m \in {START_MARK, CHANNEL_MARK, MESSAGE_MARK, END_MARK} :
       Occurrences(added'[nAdd'], m) = {}
  /\ LET win == WindowOf(buffer)
         marks == Occurrences(win, CHANNEL_MARK)
     IN /\ Occurrences(win, END_MARK) = {}
        /\ marks # {}
        /\ \A p \in marks :
             (\A q \in marks : q <= p) =>
               p \in Occurrences(win, CHANNEL_MARK \o name \o MESSAGE_MARK)
  /\ Occurrences(WindowOf(buffer'), END_MARK) = {}

\* the trimmed text of the window after the message marker of its last
\* channel declaration, which declares name
LiveText(win, name) ==
  Trim(SubSeq(win,
              (CHOOSE p \in Occurrences(win, CHANNEL_MARK) :
                 \A q \in Occurrences(win, CHANNEL_MARK) : q <= p)
                + Len(CHANNEL_MARK) + Len(name) + Len(MESSAGE_MARK) + 1,
              Len(win)))

---------------------------------------------------------------------------
(* Properties of the one-shot extract helpers *)

\* the input of the last call is Harmony-formatted
ExHarmony == isHarmonyFormat(JsString(exInput), DEFAULT_DELIMS)

\* C28: extractFinalContent returns its input verbatim when isHarmonyFormat is
\* false of it; otherwise the extracted text of the final channel when that is
\* not empty, else the extracted text of the commentary channel when that is
\* not empty, else the empty string.  extractReasoningContent and
\* extractCommentaryContent return the empty string when isHarmonyFormat is
\* false of the input.
C28_ExtractComposition ==
  /\ exCall.fn = "extractFinalContent" =>
       exCall.out =
         IF ~ExHarmony THEN exInput
         ELSE IF safeExtractChannel(exInput, S_final) # <<>>
         THEN safeExtractChannel(exInput, S_final)
         ELSE IF safeExtractChannel(exInput, S_commentary) # <<>>
         THEN safeExtractChannel(exInput, S_commentary)
         ELSE <<>>
  /\ (exCall.fn \in {"extractReasoningContent", "extractCommentaryContent"} /\ ~ExHarmony)
       => exCall.out = <<>>

\* extractFinalContent was called on a final head with no body followed by a
\* commentary message, and returned the commentary text
C28_Witness ==
  /\ exInput = K_finalHead \o X_commentaryC
  /\ exCall = [fn |-> "extractFinalContent", out |-> <<"C">>]

\* the text the helpers take for channel ch: from the first message marker at
\* or after the last declaration of ch in the whole input, up to the first
\* end, start or channel marker after it or the end of the input
ExBody(input, ch) ==
  LET decls == Occurrences(input, CHANNEL_MARK \o ch)
      msgs == {i \in Occurrences(input, MESSAGE_MARK) : i >= Max(decls)}
      from == Min(msgs) + Len(MESSAGE_MARK)
      stops == {i \in Occurrences(input, END_MARK) \cup Occurrences(input, START_MARK)
                       \cup Occurrences(input, CHANNEL_MARK) : i >= from}
  IN IF decls = {} THEN <<>>
     ELSE IF msgs = {} THEN <<>>
     ELSE Slice(input, from, Min(stops \cup {Len(input)}))

\* the body of channel ch after the three steps of cleanup
ExCleaned(input, ch) == Trim(RemoveFragment(RemoveMarkers(ExBody(input, ch), 0)))

\* what each helper returned on Harmony-formatted input is the cleaned body of
\* its channel (for extractFinalContent: of final, or of commentary when that
\* of final is empty)
ExtractLocatesBody ==
  ExHarmony =>
    /\ exCall.fn = "extractReasoningContent" => exCall.out = ExCleaned(exInput, S_analysis)
    /\ exCall.fn = "extractCommentaryContent" =>
         exCall.out = ExCleaned(exInput, S_commentary)
    /\ exCall.fn = "extractFinalContent" =>
         exCall.out = IF ExCleaned(exInput, S_final) # <<>>
                      THEN ExCleaned(exInput, S_final)
                      ELSE ExCleaned(exInput, S_commentary)

\* what a helper returned on Harmony-formatted input contains no complete marker
ExtractLeavesNoMarker ==
  (ExHarmony /\ exCall.fn # "none") =>
    \A m \in AnyMarker : ~Includes(exCall.out, m)

\* C29: on Harmony-formatted input the helpers use the last declaration of the
\* channel in the whole input, take the text after the next message marker up
\* to the earliest following end, start or channel marker or the end of the
\* input, and return it with complete markers removed, a trailing "<|" with
\* letters removed and white space trimmed; the result contains no complete
\* marker.
C29_ExtractedText == ExtractLocatesBody /\ ExtractLeavesNoMarker

---------------------------------------------------------------------------
(* Properties of the encoding registry *)

\* C30: loadHarmonyEncoding throws UNKNOWN_ENCODING for every name other than
\* HARMONY_GPT_OSS; for HARMONY_GPT_OSS it returns a pair whose render function
\* returns renderConversation(conversation) with the default delimiters and
\* whose parse function returns what parseTokens(tokens) returns with the
\* default delimiters, or raises the error it raises, whatever the role.
C30_EncodingDelegates ==
  /\ encoding.status # "none" =>
       IF encoding.name = "HARMONY_GPT_OSS"
       THEN encoding.status = "loaded" /\ encoding.error = NoError
       ELSE encoding.status = "threw" /\ encoding.error.code = "UNKNOWN_ENCODING"
  /\ encCall.fn # "none" => encoding.status = "loaded"
  /\ encCall.fn = "renderConversationForCompletion" =>
       encCall.rendered = renderConversation(encCall.conversation, DEFAULT_DELIMS)
  /\ encCall.fn = "parseMessagesFromCompletionTokens" =>
       /\ encCall.parsed = parseTokens(encCall.tokens, DEFAULT_DELIMS)
       /\ \A role \in EncRoles :
            parseMessagesFromCompletionTokens(encCall.tokens, role) = encCall.parsed

\* the render function of the loaded encoding was called with role assistant
\* on a conversation of one user message and returned its four tokens
C30_Witness ==
  /\ encoding.status = "loaded"
  /\ encCall.fn = "renderConversationForCompletion"
  /\ encCall.role = R_assistant
  /\ encCall.conversation =
       [messages |-> <<HarmonyMessage(R_user, <<TextChunk(C_message, S_Hi)>>)>>]
  /\ encCall.rendered = <<T_startUser, MESSAGE_MARK, T_textHi, END_MARK>>

---------------------------------------------------------------------------
(* Frame properties of the strict parser *)

\* tokens without the channel declarations, message markers and raw payloads
\* pushed while a message is open (open: whether one is open before Head(tokens))
RECURSIVE DropNoEffect(_, _)
DropNoEffect(tokens, open) ==
  IF tokens = <<>> THEN <<>>
  ELSE IF IsStartToken(Head(tokens))
  THEN <<Head(tokens)>> \o DropNoEffect(Tail(tokens), TRUE)
  ELSE IF Head(tokens) = END_MARK
  THEN <<Head(tokens)>> \o DropNoEffect(Tail(tokens), FALSE)
  ELSE IF open /\ (IsChannelToken(Head(tokens)) \/ Head(tokens) = MESSAGE_MARK
                     \/ IsRawToken(Head(tokens)))
  THEN DropNoEffect(Tail(tokens), open)
  ELSE <<Head(tokens)>> \o DropNoEffect(Tail(tokens), open)

\* C31: a push of a channel declaration, of the message marker or of a raw
\* payload that is ignored leaves the accumulated messages and the open
\* message unchanged; and when parseTokens returns a conversation for a token
\* list, it returns the same conversation or raises for the list without the
\* channel declarations, message markers and raw payloads pushed while a
\* message was open.
C31_NoEffectOnOutput ==
  /\ (/\ last.op = "push"
      /\ last.error = NoError
      /\ IsChannelToken(last.token) \/ last.token = MESSAGE_MARK \/ IsRawToken(last.token))
       => /\ state.messages = last.pre.messages
          /\ state.current = last.pre.current
  /\ ptPc = "returned" =>
       \/ ~parseTokens(DropNoEffect(ptTokens, FALSE), ptDelims).ok
       \/ parseTokens(DropNoEffect(ptTokens, FALSE), ptDelims).value = ptOut.value

\* parseTokens returned one empty user message for a start token, a channel
\* declaration, the message marker and a raw payload, which was ignored
C31_Witness ==
  /\ ptTokens = <<T_startUser, T_chanFinal, MESSAGE_MARK, T_raw>>
  /\ ptPc = "returned"
  /\ DropNoEffect(ptTokens, FALSE) = <<T_startUser>>
  /\ ptOut.value = [messages |-> <<HarmonyMessage(R_user, <<>>)>>]

\* the last push was of a raw payload while a message was open
RawInOpenMessage ==
  /\ last.op = "push"
  /\ last.pre.current # <<>>
  /\ IsRawToken(last.token)

\* the index in ptTokens of the start token that opened the open message,
\* when the token just pushed is ptTokens[nPush]
OpeningStart == Max({i \in 1..(nPush - 1) : IsStartToken(ptTokens[i])})

\* a channel declaration with a non-empty name among ptTokens[from..to]
DeclaredIn(from, to) ==
  {i \in from..to : IsChannelToken(ptTokens[i]) /\ Len(ptTokens[i]) > Len(CHANNEL_MARK)}

\* the message markers among ptTokens[from..to]
MarkersIn(from, to) == {j \in from..to : ptTokens[j] = MESSAGE_MARK}

---------------------------------------------------------------------------
(* Streaming-style strings through parseConversationFromString *)

\* the index of the k-th start marker of s (k from 1)
NthStart(s, k) ==
  CHOOSE i \in Occurrences(s, START_MARK) :
    Cardinality({j \in Occurrences(s, START_MARK) : j < i}) = k - 1

\* C33: for a string of messages made of a start marker with a valid role,
\* groups of channel declaration with a name, message marker and body without
\* markers, and the end marker, parseConversationFromString raises nothing
\* and returns one message per start marker, with the role that follows the
\* marker and with empty content, whatever the bodies are.
C33_StreamingStringsParse ==
  rtPc = "reparsed" =>
    /\ rtOutString.ok
    /\ Len(rtOutString.value.messages) = CountOf(rtString, START_MARK)
    /\ \A k \in 1..Len(rtOutString.value.messages) :
         /\ StartsWithAt(rtString,
                         START_MARK \o rtOutString.value.messages[k].role \o CHANNEL_MARK,
                         NthStart(rtString, k))
         /\ rtOutString.value.messages[k].content = <<>>

\* parseConversationFromString returns the messages with empty content when
\* no body begins with "text:" or "tool:"
StreamingStringsParsePlain ==
  (/\ rtPc = "reparsed"
   /\ ~Includes(rtString, MESSAGE_MARK \o TEXT_PREFIX)
   /\ ~Includes(rtString, MESSAGE_MARK \o TOOL_PREFIX))
    => C33_StreamingStringsParse

---------------------------------------------------------------------------
(* The in-progress body in the snapshots of the streaming extractor *)

\* the trimmed text after the last message marker of win (win holds one)
TrailingBody(win) ==
  Trim(SubSeq(win, Max(Occurrences(win, MESSAGE_MARK)) + Len(MESSAGE_MARK) + 1, Len(win)))

\* C34: in the snapshot of a buffer with a structural marker whose window has
\* no end marker, the text of the detected channel, when that is a known
\* one, is never the trailing unterminated body, a line break and the same
\* body again.
C34_BodyCountedOnce ==
  (nAdd > 0 /\ ~threw /\ hasHarmonyMarkers(buffer)) =>
    LET win == WindowOf(buffer)
    IN \A name \in KnownChannels :
         (/\ snap.lastChannelDetected = <<name>>
          /\ Occurrences(win, END_MARK) = {}
          /\ Occurrences(win, MESSAGE_MARK) # {}
          /\ TrailingBody(win) # <<>>)
           => SnapText(snap, name) # TrailingBody(win) \o NEWLINE \o TrailingBody(win)

\* the body "x" arrived after the head of a final message that is still open:
\* it is collected as a body of final and is the in-progress content as well,
\* and the final text is "x"
C34_Witness ==
  /\ added = <<K_start, K_finalHead, K_x>>
  /\ ~threw
  /\ TrailingBody(WindowOf(buffer)) = <<"x">>
  /\ collectChannelText(WindowOf(buffer), S_final) = <<"x">>
  /\ snap.lastChannelDetected = <<S_final>>
  /\ snap.currentFinal = <<"x">>

\* C35: in the snapshot of a buffer with a structural marker, no non-empty
\* body that the window declares under one known channel occurs in the text
\* of another known channel.
C35_ChannelIsolation ==
  (nAdd > 0 /\ ~threw /\ hasHarmonyMarkers(buffer)) =>
    LET win == WindowOf(buffer)
    IN \A c \in KnownChannels : \A d \in KnownChannels \ {c} :
         \A i \in 1..Cardinality(BodyStarts(win, c)) :
           ~Includes(SnapText(snap, d), BodiesOf(win, c)[i])

---------------------------------------------------------------------------
(* finish() and the conversation it returns *)

\* after finish(), a second finish() returns the messages the first returned
FinishTwiceSame ==
  last.op = "finish" =>
    /\ state.current = <<>>
    /\ FinishOp(state).messages = finished[1].messages

\* C36: a second finish() in a row returns the messages the first returned,
\* and the conversation a finish() returned, whose messages are the array
\* state.messages itself, still holds the messages it held when it was
\* returned, whatever was pushed since.
C36_FinishStable ==
  /\ FinishTwiceSame
  /\ finished # <<>> => state.messages = finished[1].messages

---------------------------------------------------------------------------
(* Losslessness of tokenizeCompletionString *)

\* C37: with three non-empty delimiter strings, the tokens pushed so far are
\* never empty and their concatenation is the input up to index i after every
\* iteration of the loop, so that the tokens returned, concatenated in order,
\* are the input.
C37_TokenizationLossless ==
  (/\ tkPc \in {"loop", "returned"}
   /\ tkDelims.start # <<>>
   /\ tkDelims.message # <<>>
   /\ tkDelims.end # <<>>) =>
    /\ \A k \in 1..Len(tkTokens) : tkTokens[k] # <<>>
    /\ tkI <= Len(tkInput)
    /\ Concat(tkTokens) = Slice(tkInput, 0, tkI)
    /\ tkPc = "returned" => Concat(tkTokens) = tkInput

\* the tokenizer returned the start token and a payload that ends with a
\* blank for an input with a start marker, a role and text
C37_Witness ==
  /\ tkInput = START_MARK \o R_user \o S_HiSpace
  /\ tkDelims = DEFAULT_DELIMS
  /\ tkPc = "returned"
  /\ tkTokens = <<T_startUser, S_HiSpace>>

====
